---- MODULE Spec2Model ----
(***************************************************************************)
(* Model of the JSONB container format and of the functions that work on   *)
(* encoded bytes (src/src/functions.rs).  A value is a sequence of bytes.  *)
(* A 32-bit word is kept as its four big-endian bytes: the type bits of a  *)
(* header or a JEntry live in the first byte, so every tag constant below  *)
(* is the first byte of the 32-bit constant of src/src/constants.rs.       *)
(***************************************************************************)
EXTENDS Integers, Sequences, FiniteSets, TLC

\* ---------------------------------------------------------------------
\* constants.rs
\* ---------------------------------------------------------------------
ARRAY_PREFIX == 128
OBJECT_PREFIX == 64
SCALAR_PREFIX == 32

ARRAY_CONTAINER_TAG == 128
OBJECT_CONTAINER_TAG == 64
SCALAR_CONTAINER_TAG == 32

NULL_TAG == 0
STRING_TAG == 16
NUMBER_TAG == 32
FALSE_TAG == 48
TRUE_TAG == 64
CONTAINER_TAG == 80

NUMBER_ZERO == 0
NUMBER_INT == 64
NUMBER_UINT == 80
NUMBER_FLOAT == 96

NULL_LEVEL == 7
ARRAY_LEVEL == 6
OBJECT_LEVEL == 5
STRING_LEVEL == 4
NUMBER_LEVEL == 3
TRUE_LEVEL == 2
FALSE_LEVEL == 1
INVALID_LEVEL == 0

\* ---------------------------------------------------------------------
\* Results, orderings, byte slices
\* ---------------------------------------------------------------------
Ok(x) == [ok |-> TRUE, v |-> x]
Err(e) == [ok |-> FALSE, err |-> e]

\* the ? operator: the error of r is returned, or the rest goes on with its value
Try(r, rest(_)) == IF r.ok THEN rest(r.v) ELSE r

\* let x = ...; the rest goes on with the value bound to x
Let(x, rest(_)) == rest(x)

Min(a, b) == IF a <= b THEN a ELSE b

\* &b[n..]
Drop(b, n) == SubSeq(b, n + 1, Len(b))
\* &b[..n]
Take(b, n) == SubSeq(b, 1, n)
\* &b[from..to]
Slice(b, from, to) == SubSeq(b, from + 1, to)

\* Ordering of two integers (Ord::cmp)
IntCmp(a, b) == IF a < b THEN "Less" ELSE IF a > b THEN "Greater" ELSE "Equal"

\* Ordering::reverse
Reverse(o) == IF o = "Less" THEN "Greater" ELSE IF o = "Greater" THEN "Less" ELSE o

\* <[u8] as Ord>::cmp and str::cmp: lexicographic order of the bytes
RECURSIVE BytesCmp(_, _)
BytesCmp(a, b) ==
    IF a = <<>> /\ b = <<>> THEN "Equal"
    ELSE IF a = <<>> THEN "Less"
    ELSE IF b = <<>> THEN "Greater"
    ELSE IF Head(a) < Head(b) THEN "Less"
    ELSE IF Head(a) > Head(b) THEN "Greater"
    ELSE BytesCmp(Tail(a), Tail(b))

\* ---------------------------------------------------------------------
\* Words, headers and JEntries
\* ---------------------------------------------------------------------
\* read_u32: the four bytes at idx (0-based), InvalidEOF when fewer remain
read_u32(buf, idx) ==
    IF idx + 4 <= Len(buf) THEN Ok(Slice(buf, idx, idx + 4)) ELSE Err("InvalidEOF")

\* header & CONTAINER_HEADER_TYPE_MASK (0xE0000000), as the first byte
HeaderType(w) == (w[1] \div 32) * 32
\* header & CONTAINER_HEADER_LEN_MASK (0x1FFFFFFF)
HeaderLen(w) == (w[1] % 32) * 16777216 + w[2] * 65536 + w[3] * 256 + w[4]

\* JEntry::decode_jentry: type_code = w & 0x70000000, length = w & 0x0FFFFFFF
decode_jentry(w) ==
    [type_code |-> ((w[1] \div 16) % 8) * 16,
     length |-> (w[1] % 16) * 16777216 + w[2] * 65536 + w[3] * 256 + w[4]]

\* the big-endian bytes of type_code | length
encoded_jentry(type_code, length) ==
    << type_code + ((length \div 16777216) % 16), (length \div 65536) % 256,
       (length \div 256) % 256, length % 256 >>

\* JEntry::make_container_jentry
make_container_jentry(length) == [type_code |-> CONTAINER_TAG, length |-> length]

\* the big-endian bytes of tag | len of a container header
encoded_header(tag, len) ==
    << tag + ((len \div 16777216) % 32), (len \div 65536) % 256,
       (len \div 256) % 256, len % 256 >>

\* is_jsonb: only the first byte is looked at
is_jsonb(value) ==
    /\ Len(value) > 0
    /\ value[1] \in {ARRAY_PREFIX, OBJECT_PREFIX, SCALAR_PREFIX}

\* ---------------------------------------------------------------------
\* The Value tree (src/src/value.rs) and the number codec
\* ---------------------------------------------------------------------
\* Value::Null, Bool, String, Number, Array, Object.  An Object is a
\* BTreeMap: a sequence of <<key, value>> pairs in ascending key order.
VNull == [t |-> "null"]
VBool(b) == [t |-> "bool", b |-> b]
VStr(s) == [t |-> "str", s |-> s]
VNum(k, n) == [t |-> "num", k |-> k, n |-> n]
VArr(e) == [t |-> "arr", e |-> e]
VObj(m) == [t |-> "obj", m |-> m]

\* Number::Int64(n), Number::UInt64(n), Number::Float64(n / 2): a float is
\* kept as twice its value, so that the halves are representable.
NInt(n) == [k |-> "Int64", n |-> n]
NUInt(n) == [k |-> "UInt64", n |-> n]
NFloat(n2) == [k |-> "Float64", n |-> n2]

\* twice the numeric value of a number
Twice(num) == IF num.k = "Float64" THEN num.n ELSE 2 * num.n

\* the two high bytes of f64::to_bits of m / 2, for m in 1..9 (the six
\* low bytes are zero): 0.5, 1.0, 1.5, 2.0, 2.5, 3.0, 3.5, 4.0, 4.5
F64Hi == << <<63, 224>>, <<63, 240>>, <<63, 248>>, <<64, 0>>, <<64, 4>>,
            <<64, 8>>, <<64, 12>>, <<64, 16>>, <<64, 18>> >>

\* f64::to_bits of n2 / 2 as eight big-endian bytes
F64Bits(n2) ==
    LET m == IF n2 < 0 THEN 0 - n2 ELSE n2
        hi == IF m = 0 THEN <<0, 0>> ELSE F64Hi[m]
        sign == IF n2 < 0 THEN 128 ELSE 0
    IN  << hi[1] + sign, hi[2], 0, 0, 0, 0, 0, 0 >>

\* f64::from_bits, in halves
F64FromBits(b) ==
    LET neg == b[1] >= 128
        hi == << b[1] % 128, b[2] >>
        m == IF hi = <<0, 0>> THEN 0
             ELSE CHOOSE i \in 1..Len(F64Hi) : F64Hi[i] = hi
    IN  IF neg THEN 0 - m ELSE m

\* i64::to_be_bytes / u64::to_be_bytes of a small integer
I64Bytes(n) ==
    LET lo == n % 16777216
        ext == IF n < 0 THEN 255 ELSE 0
    IN  << ext, ext, ext, ext, ext, lo \div 65536, (lo \div 256) % 256, lo % 256 >>

\* i64::from_be_bytes of the bytes of a small integer
I64FromBytes(b) ==
    LET lo == b[6] * 65536 + b[7] * 256 + b[8]
    IN  IF b[1] >= 128 THEN lo - 16777216 ELSE lo

\* Number::encode: a type byte, then the fixed-width big-endian body
NumberEncode(num) ==
    IF num.k # "Float64" /\ num.n = 0 THEN << NUMBER_ZERO >>
    ELSE IF num.k = "Int64" THEN << NUMBER_INT >> \o I64Bytes(num.n)
    ELSE IF num.k = "UInt64" THEN << NUMBER_UINT >> \o I64Bytes(num.n)
    ELSE << NUMBER_FLOAT >> \o F64Bits(num.n)

\* Number::decode
NumberDecode(b) ==
    IF Len(b) = 0 THEN Err("InvalidNumber")
    ELSE IF b[1] = NUMBER_ZERO THEN Ok(NUInt(0))
    ELSE IF Len(b) < 9 THEN Err("InvalidNumber")
    ELSE IF b[1] = NUMBER_INT THEN Ok(NInt(I64FromBytes(Drop(b, 1))))
    ELSE IF b[1] = NUMBER_UINT THEN Ok(NUInt(I64FromBytes(Drop(b, 1))))
    ELSE IF b[1] = NUMBER_FLOAT THEN Ok(NFloat(F64FromBits(Drop(b, 1))))
    ELSE Err("InvalidNumber")

\* <Number as Ord>::cmp: numeric comparison
NumberCmp(a, b) == IntCmp(Twice(a), Twice(b))

\* Number::as_f64, as the bits of the float
AsF64Bits(num) == F64Bits(Twice(num))

\* ---------------------------------------------------------------------
\* Encoder: Value::to_vec / Value::write_to_vec
\* ---------------------------------------------------------------------
RECURSIVE Flat(_)
Flat(ss) == IF ss = <<>> THEN <<>> ELSE Head(ss) \o Flat(Tail(ss))

TypeCodeOf(v) ==
    CASE v.t = "null" -> NULL_TAG
      [] v.t = "bool" -> IF v.b THEN TRUE_TAG ELSE FALSE_TAG
      [] v.t = "str" -> STRING_TAG
      [] v.t = "num" -> NUMBER_TAG
      [] OTHER -> CONTAINER_TAG

RECURSIVE Encode(_)
\* the payload bytes of a value stored in a container slot
Payload(v) ==
    CASE v.t = "null" -> <<>>
      [] v.t = "bool" -> <<>>
      [] v.t = "str" -> v.s
      [] v.t = "num" -> NumberEncode([k |-> v.k, n |-> v.n])
      [] OTHER -> Encode(v)

JEntryBytes(v) == encoded_jentry(TypeCodeOf(v), Len(Payload(v)))

Encode(v) ==
    IF v.t = "arr" THEN
        encoded_header(ARRAY_CONTAINER_TAG, Len(v.e))
          \o Flat([i \in 1..Len(v.e) |-> JEntryBytes(v.e[i])])
          \o Flat([i \in 1..Len(v.e) |-> Payload(v.e[i])])
    ELSE IF v.t = "obj" THEN
        encoded_header(OBJECT_CONTAINER_TAG, Len(v.m))
          \o Flat([i \in 1..Len(v.m) |-> encoded_jentry(STRING_TAG, Len(v.m[i][1]))])
          \o Flat([i \in 1..Len(v.m) |-> JEntryBytes(v.m[i][2])])
          \o Flat([i \in 1..Len(v.m) |-> v.m[i][1]])
          \o Flat([i \in 1..Len(v.m) |-> Payload(v.m[i][2])])
    ELSE
        encoded_header(SCALAR_CONTAINER_TAG, 0) \o JEntryBytes(v) \o Payload(v)

\* ---------------------------------------------------------------------
\* compare (functions.rs 2136-2433)
\* ---------------------------------------------------------------------
\* jentry_compare_level with the levels of true and false exchanged
jentry_compare_level_bool_swapped(jentry) ==
    CASE jentry.type_code = NULL_TAG -> NULL_LEVEL
      [] jentry.type_code = CONTAINER_TAG -> OBJECT_LEVEL
      [] jentry.type_code = STRING_TAG -> STRING_LEVEL
      [] jentry.type_code = NUMBER_TAG -> NUMBER_LEVEL
      [] jentry.type_code = TRUE_TAG -> FALSE_LEVEL
      [] jentry.type_code = FALSE_TAG -> TRUE_LEVEL
      [] OTHER -> INVALID_LEVEL

\* jentry_compare_level
jentry_compare_level(jentry) ==
    CASE jentry.type_code = NULL_TAG -> NULL_LEVEL
      [] jentry.type_code = CONTAINER_TAG -> OBJECT_LEVEL
      [] jentry.type_code = STRING_TAG -> STRING_LEVEL
      [] jentry.type_code = NUMBER_TAG -> NUMBER_LEVEL
      [] jentry.type_code = TRUE_TAG -> TRUE_LEVEL
      [] jentry.type_code = FALSE_TAG -> FALSE_LEVEL
      [] OTHER -> INVALID_LEVEL

RECURSIVE compare_scalar(_, _, _, _)
RECURSIVE compare_container(_, _)
RECURSIVE compare_array_loop(_, _, _, _, _, _)
RECURSIVE compare_object_loop(_, _, _, _, _, _, _, _, _, _)

\* the two NUMBER payloads decoded and compared
compare_number(left, right) ==
    LET l == NumberDecode(left)
        r == NumberDecode(right)
    IN  IF ~l.ok THEN l ELSE IF ~r.ok THEN r ELSE Ok(NumberCmp(l.v, r.v))

\* compare_scalar: left and right are the slices that start at the payloads
compare_scalar(left_jentry, left, right_jentry, right) ==
    LET left_level == jentry_compare_level(left_jentry)
        right_level == jentry_compare_level(right_jentry)
        lt == left_jentry.type_code
        rt == right_jentry.type_code
    IN  IF left_level # right_level THEN Ok(IntCmp(left_level, right_level))
        ELSE IF lt = NULL_TAG /\ rt = NULL_TAG THEN Ok("Equal")
        ELSE IF lt = CONTAINER_TAG /\ rt = CONTAINER_TAG THEN compare_container(left, right)
        ELSE IF lt = STRING_TAG /\ rt = STRING_TAG THEN
            Ok(BytesCmp(Take(left, left_jentry.length), Take(right, right_jentry.length)))
        ELSE IF lt = NUMBER_TAG /\ rt = NUMBER_TAG THEN
            compare_number(Take(left, left_jentry.length), Take(right, right_jentry.length))
        ELSE IF lt = TRUE_TAG /\ rt = TRUE_TAG THEN Ok("Equal")
        ELSE IF lt = FALSE_TAG /\ rt = FALSE_TAG THEN Ok("Equal")
        ELSE Err("InvalidJsonbJEntry")

\* the loop of compare_array over the common prefix: the first order that
\* is not Equal, Equal when there is none
compare_array_loop(i, length, left, right, lvo, rvo) ==
    IF i = length THEN Ok("Equal")
    ELSE
        LET le == read_u32(left, 4 * i)
            re == read_u32(right, 4 * i)
        IN  IF ~le.ok THEN le ELSE IF ~re.ok THEN re
            ELSE
                LET lj == decode_jentry(le.v)
                    rj == decode_jentry(re.v)
                    order == compare_scalar(lj, Drop(left, lvo), rj, Drop(right, rvo))
                IN  IF ~order.ok THEN order
                    ELSE IF order.v # "Equal" THEN order
                    ELSE compare_array_loop(i + 1, length, left, right,
                                            lvo + lj.length, rvo + rj.length)

\* compare_array with the final length comparison giving Less for every
\* pair of unequal lengths
compare_array_len_less(left_header, left, right_header, right) ==
    LET left_length == HeaderLen(left_header)
        right_length == HeaderLen(right_header)
        r == compare_array_loop(0, Min(left_length, right_length), left, right,
                                4 * left_length, 4 * right_length)
    IN  IF r.ok /\ r.v = "Equal"
        THEN Ok(IF left_length = right_length THEN "Equal" ELSE "Less")
        ELSE r

\* compare_array: left and right are the slices after the headers
compare_array(left_header, left, right_header, right) ==
    LET left_length == HeaderLen(left_header)
        right_length == HeaderLen(right_header)
        r == compare_array_loop(0, Min(left_length, right_length), left, right,
                                4 * left_length, 4 * right_length)
    IN  IF r.ok /\ r.v = "Equal" THEN Ok(IntCmp(left_length, right_length)) ELSE r

\* the offset after the n key JEntries' payloads: 8 * n plus the key lengths;
\* InvalidEOF when a key JEntry cannot be read
RECURSIVE KeysEnd(_, _, _, _)
KeysEnd(b, n, i, acc) ==
    IF i = n THEN Ok(acc)
    ELSE LET e == read_u32(b, 4 * i)
         IN  IF ~e.ok THEN e ELSE KeysEnd(b, n, i + 1, acc + decode_jentry(e.v).length)

\* the loop of compare_object: key i, then value i, over the common prefix
compare_object_loop(i, length, left_length, left, right_length, right, lko, rko, lvo, rvo) ==
    IF i = length THEN Ok("Equal")
    ELSE
        LET lkj == decode_jentry(read_u32(left, 4 * i).v)
            rkj == decode_jentry(read_u32(right, 4 * i).v)
            key_order == compare_scalar(lkj, Drop(left, lko), rkj, Drop(right, rko))
        IN  IF ~key_order.ok THEN key_order
            ELSE IF key_order.v # "Equal" THEN key_order
            ELSE
                LET le == read_u32(left, 4 * (left_length + i))
                    re == read_u32(right, 4 * (right_length + i))
                IN  IF ~le.ok THEN le ELSE IF ~re.ok THEN re
                    ELSE
                        LET lvj == decode_jentry(le.v)
                            rvj == decode_jentry(re.v)
                            val_order == compare_scalar(lvj, Drop(left, lvo),
                                                        rvj, Drop(right, rvo))
                        IN  IF ~val_order.ok THEN val_order
                            ELSE IF val_order.v # "Equal" THEN val_order
                            ELSE compare_object_loop(i + 1, length, left_length, left,
                                     right_length, right,
                                     lko + lkj.length, rko + rkj.length,
                                     lvo + lvj.length, rvo + rvj.length)

compare_object(left_header, left, right_header, right) ==
    LET left_length == HeaderLen(left_header)
        right_length == HeaderLen(right_header)
        lend == KeysEnd(left, left_length, 0, 8 * left_length)
        rend == KeysEnd(right, right_length, 0, 8 * right_length)
    IN  IF ~lend.ok THEN lend ELSE IF ~rend.ok THEN rend
        ELSE
            LET r == compare_object_loop(0, Min(left_length, right_length),
                         left_length, left, right_length, right,
                         8 * left_length, 8 * right_length, lend.v, rend.v)
            IN  IF r.ok /\ r.v = "Equal" THEN Ok(IntCmp(left_length, right_length)) ELSE r

compare_container(left, right) ==
    LET lh == read_u32(left, 0)
        rh == read_u32(right, 0)
    IN  IF ~lh.ok THEN lh ELSE IF ~rh.ok THEN rh
        ELSE
            LET lt == HeaderType(lh.v)
                rt == HeaderType(rh.v)
            IN  IF lt = ARRAY_CONTAINER_TAG /\ rt = ARRAY_CONTAINER_TAG THEN
                    compare_array(lh.v, Drop(left, 4), rh.v, Drop(right, 4))
                ELSE IF lt = OBJECT_CONTAINER_TAG /\ rt = OBJECT_CONTAINER_TAG THEN
                    compare_object(lh.v, Drop(left, 4), rh.v, Drop(right, 4))
                ELSE IF lt = ARRAY_CONTAINER_TAG /\ rt = OBJECT_CONTAINER_TAG THEN Ok("Greater")
                ELSE IF lt = OBJECT_CONTAINER_TAG /\ rt = ARRAY_CONTAINER_TAG THEN Ok("Less")
                ELSE Err("InvalidJsonbHeader")

\* ---------------------------------------------------------------------
\* parse_value: the strict JSON text parser of the text fallback.  The
\* texts of the model hold the literals, integers, strings without escapes,
\* arrays and objects; the whole input must be consumed.
\* ---------------------------------------------------------------------
IsWs(c) == c \in {32, 9, 10, 13}
IsDigit(c) == c \in 48..57

RECURSIVE SkipWs(_, _)
SkipWs(t, p) == IF p <= Len(t) /\ IsWs(t[p]) THEN SkipWs(t, p + 1) ELSE p

\* TRUE when the bytes of w stand at position p of t
Matches(t, p, w) == p + Len(w) - 1 <= Len(t) /\ SubSeq(t, p, p + Len(w) - 1) = w

At(v, p) == [ok |-> TRUE, v |-> v, pos |-> p]
Bad == [ok |-> FALSE, err |-> "InvalidJson"]

RECURSIVE ParseDigits(_, _, _)
ParseDigits(t, p, acc) ==
    IF p <= Len(t) /\ IsDigit(t[p]) THEN ParseDigits(t, p + 1, 10 * acc + (t[p] - 48))
    ELSE [v |-> acc, pos |-> p]

\* a non-negative integer is a UInt64, a negative one an Int64
ParseNumber(t, p) ==
    LET neg == t[p] = 45
        q == IF neg THEN p + 1 ELSE p
    IN  IF q > Len(t) \/ ~IsDigit(t[q]) THEN Bad
        ELSE IF t[q] = 48 /\ q + 1 <= Len(t) /\ IsDigit(t[q + 1]) THEN Bad
        ELSE LET d == ParseDigits(t, q, 0)
             IN  IF neg THEN At(VNum("Int64", 0 - d.v), d.pos)
                 ELSE At(VNum("UInt64", d.v), d.pos)

RECURSIVE StringEnd(_, _)
\* the position of the closing quote, 0 when there is none
StringEnd(t, p) ==
    IF p > Len(t) THEN 0
    ELSE IF t[p] = 34 THEN p
    ELSE IF t[p] < 32 \/ t[p] = 92 THEN 0
    ELSE StringEnd(t, p + 1)

\* t[p] is the opening quote
ParseString(t, p) ==
    LET e == StringEnd(t, p + 1)
    IN  IF e = 0 THEN Bad ELSE At(SubSeq(t, p + 1, e - 1), e + 1)

\* BTreeMap::insert on the sorted sequence of pairs
RECURSIVE MapInsert(_, _, _)
MapInsert(m, k, v) ==
    IF m = <<>> THEN << <<k, v>> >>
    ELSE IF Head(m)[1] = k THEN << <<k, v>> >> \o Tail(m)
    ELSE IF BytesCmp(k, Head(m)[1]) = "Less" THEN << <<k, v>> >> \o m
    ELSE << Head(m) >> \o MapInsert(Tail(m), k, v)

RECURSIVE ParseValueAt(_, _)
RECURSIVE ParseElems(_, _, _)
RECURSIVE ParseMembers(_, _, _)

\* after an element: ',' and another element, or ']'
ParseElems(t, p, acc) ==
    LET r == ParseValueAt(t, SkipWs(t, p))
    IN  IF ~r.ok THEN Bad
        ELSE LET q == SkipWs(t, r.pos)
                 acc2 == Append(acc, r.v)
             IN  IF q > Len(t) THEN Bad
                 ELSE IF t[q] = 44 THEN ParseElems(t, q + 1, acc2)
                 ELSE IF t[q] = 93 THEN At(VArr(acc2), q + 1)
                 ELSE Bad

\* a member is string ':' value; after it ',' and another member, or '}'
ParseMembers(t, p, acc) ==
    LET kq == SkipWs(t, p)
    IN  IF kq > Len(t) \/ t[kq] # 34 THEN Bad
        ELSE LET k == ParseString(t, kq)
             IN  IF ~k.ok THEN Bad
                 ELSE LET c == SkipWs(t, k.pos)
                      IN  IF c > Len(t) \/ t[c] # 58 THEN Bad
                          ELSE LET r == ParseValueAt(t, SkipWs(t, c + 1))
                               IN  IF ~r.ok THEN Bad
                                   ELSE LET q == SkipWs(t, r.pos)
                                            acc2 == MapInsert(acc, k.v, r.v)
                                        IN  IF q > Len(t) THEN Bad
                                            ELSE IF t[q] = 44 THEN ParseMembers(t, q + 1, acc2)
                                            ELSE IF t[q] = 125 THEN At(VObj(acc2), q + 1)
                                            ELSE Bad

ParseValueAt(t, p) ==
    IF p > Len(t) THEN Bad
    ELSE IF Matches(t, p, <<110, 117, 108, 108>>) THEN At(VNull, p + 4)
    ELSE IF Matches(t, p, <<116, 114, 117, 101>>) THEN At(VBool(TRUE), p + 4)
    ELSE IF Matches(t, p, <<102, 97, 108, 115, 101>>) THEN At(VBool(FALSE), p + 5)
    ELSE IF t[p] = 34 THEN
        LET r == ParseString(t, p) IN IF r.ok THEN At(VStr(r.v), r.pos) ELSE Bad
    ELSE IF t[p] = 45 \/ IsDigit(t[p]) THEN ParseNumber(t, p)
    ELSE IF t[p] = 91 THEN
        LET q == SkipWs(t, p + 1)
        IN  IF q <= Len(t) /\ t[q] = 93 THEN At(VArr(<<>>), q + 1)
            ELSE ParseElems(t, q, <<>>)
    ELSE IF t[p] = 123 THEN
        LET q == SkipWs(t, p + 1)
        IN  IF q <= Len(t) /\ t[q] = 125 THEN At(VObj(<<>>), q + 1)
            ELSE ParseMembers(t, q, <<>>)
    ELSE Bad

parse_value(t) ==
    LET r == ParseValueAt(t, SkipWs(t, 1))
    IN  IF ~r.ok THEN Err("InvalidJson")
        ELSE IF SkipWs(t, r.pos) # Len(t) + 1 THEN Err("InvalidJson")
        ELSE Ok(r.v)

\* ---------------------------------------------------------------------
\* compare, the entry point (functions.rs 2136-2217)
\* ---------------------------------------------------------------------
RECURSIVE compare(_, _)
compare(left, right) ==
    IF ~is_jsonb(left) /\ ~is_jsonb(right) THEN
        LET lres == parse_value(left)
            rres == parse_value(right)
        IN  IF lres.ok /\ rres.ok THEN compare(Encode(lres.v), Encode(rres.v))
            ELSE IF lres.ok THEN Ok("Greater")
            ELSE IF rres.ok THEN Ok("Less")
            ELSE Ok(BytesCmp(left, right))
    ELSE IF ~is_jsonb(left) THEN
        LET lres == parse_value(left)
        IN  IF lres.ok THEN compare(Encode(lres.v), right) ELSE Ok("Less")
    ELSE IF ~is_jsonb(right) THEN
        LET rres == parse_value(right)
        IN  IF rres.ok THEN compare(left, Encode(rres.v)) ELSE Ok("Greater")
    ELSE
        LET lh == read_u32(left, 0)
            rh == read_u32(right, 0)
        IN  IF ~lh.ok THEN lh ELSE IF ~rh.ok THEN rh
            ELSE
                LET lt == HeaderType(lh.v)
                    rt == HeaderType(rh.v)
                    le == read_u32(left, 4)
                    re == read_u32(right, 4)
                    containers == {ARRAY_CONTAINER_TAG, OBJECT_CONTAINER_TAG}
                IN  IF lt = SCALAR_CONTAINER_TAG /\ rt = SCALAR_CONTAINER_TAG THEN
                        IF ~le.ok THEN le ELSE IF ~re.ok THEN re
                        ELSE compare_scalar(decode_jentry(le.v), Drop(left, 8),
                                            decode_jentry(re.v), Drop(right, 8))
                    ELSE IF lt = ARRAY_CONTAINER_TAG /\ rt = ARRAY_CONTAINER_TAG THEN
                        compare_array(lh.v, Drop(left, 4), rh.v, Drop(right, 4))
                    ELSE IF lt = OBJECT_CONTAINER_TAG /\ rt = OBJECT_CONTAINER_TAG THEN
                        compare_object(lh.v, Drop(left, 4), rh.v, Drop(right, 4))
                    ELSE IF lt = SCALAR_CONTAINER_TAG /\ rt \in containers THEN
                        IF ~le.ok THEN le
                        ELSE IF decode_jentry(le.v).type_code = NULL_TAG THEN Ok("Greater")
                        ELSE Ok("Less")
                    ELSE IF lt \in containers /\ rt = SCALAR_CONTAINER_TAG THEN
                        IF ~re.ok THEN re
                        ELSE IF decode_jentry(re.v).type_code = NULL_TAG THEN Ok("Less")
                        ELSE Ok("Greater")
                    ELSE IF lt = ARRAY_CONTAINER_TAG /\ rt = OBJECT_CONTAINER_TAG THEN Ok("Greater")
                    ELSE IF lt = OBJECT_CONTAINER_TAG /\ rt = ARRAY_CONTAINER_TAG THEN Ok("Less")
                    ELSE Err("InvalidJsonbHeader")

\* ---------------------------------------------------------------------
\* convert_to_comparable (functions.rs 2460-2609); each operator gives the
\* bytes that the function pushes to buf
\* ---------------------------------------------------------------------
RECURSIVE XorBits(_, _, _)
\* a ^ b on k bits
XorBits(a, b, k) ==
    IF k = 0 THEN 0
    ELSE (((a % 2) + (b % 2)) % 2) + 2 * XorBits(a \div 2, b \div 2, k - 1)

\* s ^ (((s >> 63) as u64) >> 1), then b[0] ^= 0x80, on the big-endian bytes
SortableF64(bits) ==
    LET mask == IF bits[1] >= 128 THEN <<127, 255, 255, 255, 255, 255, 255, 255>>
                ELSE <<0, 0, 0, 0, 0, 0, 0, 0>>
        v == [i \in 1..8 |-> XorBits(bits[i], mask[i], 8)]
    IN  [v EXCEPT ![1] = XorBits(v[1], 128, 8)]

RECURSIVE scalar_convert_to_comparable(_, _, _)
RECURSIVE array_convert_to_comparable(_, _, _, _, _)
RECURSIVE object_convert_to_comparable(_, _, _, _, _, _)

scalar_convert_to_comparable(depth, jentry, value) ==
    IF jentry.type_code = CONTAINER_TAG THEN
        LET h == read_u32(value, 0)
        IN  IF ~h.ok THEN << depth >>
            ELSE IF HeaderType(h.v) = ARRAY_CONTAINER_TAG THEN
                << depth, ARRAY_LEVEL >>
                  \o array_convert_to_comparable(depth + 1, HeaderLen(h.v), Drop(value, 4),
                                                 0, 4 * HeaderLen(h.v))
            ELSE IF HeaderType(h.v) = OBJECT_CONTAINER_TAG THEN
                LET n == HeaderLen(h.v)
                    body == Drop(value, 4)
                    kend == KeysEnd(body, n, 0, 8 * n)
                IN  << depth, OBJECT_LEVEL >>
                      \o (IF ~kend.ok THEN <<>>
                          ELSE object_convert_to_comparable(depth + 1, n, body, 0, 8 * n, kend.v))
            ELSE << depth >>
    ELSE
        << depth, jentry_compare_level(jentry) >>
          \o (IF jentry.type_code = STRING_TAG THEN Take(value, jentry.length)
              ELSE IF jentry.type_code = NUMBER_TAG THEN
                  LET num == NumberDecode(Take(value, jentry.length))
                  IN  IF num.ok THEN SortableF64(AsF64Bits(num.v)) ELSE <<>>
              ELSE <<>>)

\* element i of length, its payload at val_offset
array_convert_to_comparable(depth, length, value, i, val_offset) ==
    IF i = length THEN <<>>
    ELSE LET e == read_u32(value, 4 * i)
         IN  IF ~e.ok THEN <<>>
             ELSE LET jentry == decode_jentry(e.v)
                  IN  scalar_convert_to_comparable(depth, jentry, Drop(value, val_offset))
                        \o array_convert_to_comparable(depth, length, value, i + 1,
                                                       val_offset + jentry.length)

\* member i of length: the key, then the value
object_convert_to_comparable(depth, length, value, i, key_offset, val_offset) ==
    IF i = length THEN <<>>
    ELSE LET key_jentry == decode_jentry(read_u32(value, 4 * i).v)
             k == scalar_convert_to_comparable(depth, key_jentry, Drop(value, key_offset))
             e == read_u32(value, 4 * (length + i))
         IN  IF ~e.ok THEN k
             ELSE LET val_jentry == decode_jentry(e.v)
                  IN  k \o scalar_convert_to_comparable(depth, val_jentry, Drop(value, val_offset))
                        \o object_convert_to_comparable(depth, length, value, i + 1,
                               key_offset + key_jentry.length,
                               val_offset + val_jentry.length)

RECURSIVE convert_to_comparable(_)
convert_to_comparable(value) ==
    IF ~is_jsonb(value) THEN
        LET r == parse_value(value)
        IN  IF r.ok THEN convert_to_comparable(Encode(r.v))
            ELSE << 0, INVALID_LEVEL >> \o value
    ELSE
        LET h == read_u32(value, 0)
            header == IF h.ok THEN h.v ELSE <<0, 0, 0, 0>>
            length == HeaderLen(header)
        IN  IF HeaderType(header) = SCALAR_CONTAINER_TAG THEN
                LET e == read_u32(value, 4)
                IN  IF ~e.ok THEN <<>>
                    ELSE scalar_convert_to_comparable(0, decode_jentry(e.v), Drop(value, 8))
            ELSE IF HeaderType(header) = ARRAY_CONTAINER_TAG THEN
                << 0, ARRAY_LEVEL >>
                  \o array_convert_to_comparable(1, length, Drop(value, 4), 0, 4 * length)
            ELSE IF HeaderType(header) = OBJECT_CONTAINER_TAG THEN
                LET body == Drop(value, 4)
                    kend == KeysEnd(body, length, 0, 8 * length)
                IN  << 0, OBJECT_LEVEL >>
                      \o (IF ~kend.ok THEN <<>>
                          ELSE object_convert_to_comparable(1, length, body, 0, 8 * length, kend.v))
            ELSE <<>>

\* ---------------------------------------------------------------------
\* Decoder and from_slice: bytes to Value.  A container decodes when its
\* JEntry table and payloads fill the slice exactly.
\* ---------------------------------------------------------------------
RECURSIVE DecodeValue(_)
RECURSIVE DecodeItems(_, _, _, _, _, _)

\* the value of a slot: its JEntry and its payload bytes
DecodeEntry(jentry, bytes) ==
    IF Len(bytes) # jentry.length THEN Err("InvalidJsonb")
    ELSE IF jentry.type_code = NULL_TAG THEN
        IF jentry.length = 0 THEN Ok(VNull) ELSE Err("InvalidJsonb")
    ELSE IF jentry.type_code = TRUE_TAG THEN
        IF jentry.length = 0 THEN Ok(VBool(TRUE)) ELSE Err("InvalidJsonb")
    ELSE IF jentry.type_code = FALSE_TAG THEN
        IF jentry.length = 0 THEN Ok(VBool(FALSE)) ELSE Err("InvalidJsonb")
    ELSE IF jentry.type_code = STRING_TAG THEN Ok(VStr(bytes))
    ELSE IF jentry.type_code = NUMBER_TAG THEN
        Try(NumberDecode(bytes), LAMBDA n : Ok(VNum(n.k, n.n)))
    ELSE IF jentry.type_code = CONTAINER_TAG THEN
        Try(DecodeValue(bytes), LAMBDA v :
            IF v.t \in {"arr", "obj"} THEN Ok(v) ELSE Err("InvalidJsonb"))
    ELSE Err("InvalidJsonbJEntry")

\* the slots i..n-1 of the JEntry table at table (0-based word index),
\* their payloads from offset on; gives the values and the end offset
DecodeItems(b, table, i, n, offset, acc) ==
    IF i = n THEN Ok([items |-> acc, end |-> offset])
    ELSE Try(read_u32(b, 4 * (table + i)), LAMBDA e :
         Let(decode_jentry(e), LAMBDA jentry :
             IF offset + jentry.length > Len(b) THEN Err("InvalidEOF")
             ELSE Try(DecodeEntry(jentry, Slice(b, offset, offset + jentry.length)), LAMBDA v :
                      DecodeItems(b, table, i + 1, n, offset + jentry.length, Append(acc, v)))))

\* the container of header type ty and length n
DecodeContainer(b, ty, n) ==
    IF n > Len(b) \div 4 THEN Err("InvalidEOF")
    ELSE IF ty = SCALAR_CONTAINER_TAG THEN
        Try(DecodeItems(b, 1, 0, 1, 8, <<>>), LAMBDA r :
            IF r.end # Len(b) \/ r.items[1].t \in {"arr", "obj"} THEN Err("InvalidJsonb")
            ELSE Ok(r.items[1]))
    ELSE IF ty = ARRAY_CONTAINER_TAG THEN
        Try(DecodeItems(b, 1, 0, n, 4 + 4 * n, <<>>), LAMBDA r :
            IF r.end # Len(b) THEN Err("InvalidJsonb") ELSE Ok(VArr(r.items)))
    ELSE IF ty = OBJECT_CONTAINER_TAG THEN
        Try(DecodeItems(b, 1, 0, n, 4 + 8 * n, <<>>), LAMBDA ks :
            IF \E j \in 1..n : ks.items[j].t # "str" THEN Err("InvalidJsonb")
            ELSE Try(DecodeItems(b, 1 + n, 0, n, ks.end, <<>>), LAMBDA vs :
                     IF vs.end # Len(b) THEN Err("InvalidJsonb")
                     ELSE Ok(VObj([j \in 1..n |-> << ks.items[j].s, vs.items[j] >>]))))
    ELSE Err("InvalidJsonbHeader")

\* Decoder::decode: the Value tree of the JSONB bytes b
DecodeValue(b) ==
    Try(read_u32(b, 0), LAMBDA h : DecodeContainer(b, HeaderType(h), HeaderLen(h)))

\* from_slice: decode the bytes as JSONB and, when that fails, parse them
\* as JSON text
from_slice(b) == Let(DecodeValue(b), LAMBDA r : IF r.ok THEN r ELSE parse_value(b))

\* ---------------------------------------------------------------------
\* The free functions on Value trees (functions.rs 2671-2799)
\* ---------------------------------------------------------------------
\* BTreeMap::append: every pair of other is inserted, overwriting
RECURSIVE MapAppend(_, _)
MapAppend(m, other) ==
    IF other = <<>> THEN m
    ELSE MapAppend(MapInsert(m, Head(other)[1], Head(other)[2]), Tail(other))

\* BTreeMap::get: the index of key k in m, 0 when absent
MapIndex(m, k) ==
    IF \E j \in 1..Len(m) : m[j][1] = k
    THEN CHOOSE j \in 1..Len(m) : m[j][1] = k
    ELSE 0

\* Vec::remove / BTreeMap::remove: seq without its element j
RemoveAt(seq, j) == SubSeq(seq, 1, j - 1) \o SubSeq(seq, j + 1, Len(seq))

concat_values(l, r) ==
    IF l.t = "obj" /\ r.t = "obj" THEN VObj(MapAppend(l.m, r.m))
    ELSE IF l.t = "arr" /\ r.t = "arr" THEN VArr(l.e \o r.e)
    ELSE IF r.t = "arr" THEN VArr(<< l >> \o r.e)
    ELSE IF l.t = "arr" THEN VArr(Append(l.e, r))
    ELSE VArr(<< l, r >>)

\* concat, the free function: the bytes appended to buf
concat(l, r) ==
    IF ~is_jsonb(l) \/ ~is_jsonb(r) THEN
        Try(from_slice(l), LAMBDA left_val :
        Try(from_slice(r), LAMBDA right_val :
            Ok(Encode(concat_values(left_val, right_val)))))
    ELSE Ok(<<>>)

RECURSIVE strip_value_nulls(_)
\* Vec::retain on the pairs of an object: the pairs whose value is not Null
RECURSIVE RetainNonNull(_)
RetainNonNull(m) ==
    IF m = <<>> THEN <<>>
    ELSE IF Head(m)[2].t = "null" THEN RetainNonNull(Tail(m))
    ELSE << Head(m) >> \o RetainNonNull(Tail(m))

strip_value_nulls(val) ==
    IF val.t = "arr" THEN VArr([j \in 1..Len(val.e) |-> strip_value_nulls(val.e[j])])
    ELSE IF val.t = "obj" THEN
        VObj(RetainNonNull([j \in 1..Len(val.m) |->
                             << val.m[j][1], strip_value_nulls(val.m[j][2]) >>]))
    ELSE val

\* strip_nulls, the free function: the bytes appended to buf
strip_nulls(value) ==
    IF ~is_jsonb(value) THEN
        LET json == parse_value(value)
        IN  IF ~json.ok THEN json ELSE Ok(Encode(strip_value_nulls(json.v)))
    ELSE Ok(<<>>)

\* KeyPath::Index(i), KeyPath::Name(s) (QuotedName is handled as Name)
KIndex(i) == [t |-> "Index", i |-> i]
KName(s) == [t |-> "Name", s |-> s]

\* i32::abs
Abs(i) == IF i < 0 THEN 0 - i ELSE i

I32_MIN == (0 - 2147483647) - 1

RECURSIVE delete_value_array_by_keypath(_, _)
RECURSIVE delete_value_object_by_keypath(_, _)

\* the tree of a container after the deletion below one of its slots
delete_value_below(val, keypath) ==
    IF val.t = "arr" THEN VArr(delete_value_array_by_keypath(val.e, keypath))
    ELSE IF val.t = "obj" THEN VObj(delete_value_object_by_keypath(val.m, keypath))
    ELSE val

delete_value_array_by_keypath(arr, keypath) ==
    IF keypath # <<>> /\ Head(keypath).t = "Index" THEN
        LET len == Len(arr)
            i == Head(keypath).i
            idx == IF i = I32_MIN THEN len + I32_MIN
                   ELSE IF i < 0 THEN len - Abs(i) ELSE i
            rest == Tail(keypath)
        IN  IF idx < 0 \/ idx >= len THEN arr
            ELSE IF rest = <<>> THEN RemoveAt(arr, idx + 1)
            ELSE [arr EXCEPT ![idx + 1] = delete_value_below(arr[idx + 1], rest)]
    ELSE arr

delete_value_object_by_keypath(obj, keypath) ==
    IF keypath # <<>> /\ Head(keypath).t = "Name" THEN
        LET j == MapIndex(obj, Head(keypath).s)
            rest == Tail(keypath)
        IN  IF j = 0 THEN obj
            ELSE IF rest = <<>> THEN RemoveAt(obj, j)
            ELSE [obj EXCEPT ![j] = << obj[j][1], delete_value_below(obj[j][2], rest) >>]
    ELSE obj

RECURSIVE delete_value_overflows(_, _)
\* idx.abs() in delete_value_array_by_keypath is reached with i32::MIN on the
\* way of the keypath through val: a build with overflow checks panics
\* there, a build without them wraps and leaves the array as it is
delete_value_overflows(val, keypath) ==
    IF keypath = << >> THEN FALSE
    ELSE IF val.t = "arr" /\ Head(keypath).t = "Index" THEN
        LET len == Len(val.e)
            i == Head(keypath).i
            idx == IF i < 0 THEN len - Abs(i) ELSE i
        IN  \/ i = I32_MIN
            \/ /\ 0 <= idx /\ idx < len /\ Tail(keypath) # << >>
               /\ delete_value_overflows(val.e[idx + 1], Tail(keypath))
    ELSE IF val.t = "obj" /\ Head(keypath).t = "Name" THEN
        /\ Tail(keypath) # << >> /\ MapIndex(val.m, Head(keypath).s) # 0
        /\ delete_value_overflows(val.m[MapIndex(val.m, Head(keypath).s)][2], Tail(keypath))
    ELSE FALSE

\* the match of delete_by_keypath that leaves the value as it is
delete_value_by_keypath_kept(value, keypath) ==
    IF value.t \in {"arr", "obj"} THEN Ok(value) ELSE Err("InvalidJsonType")

\* the match of delete_by_keypath on the parsed value (functions.rs
\* 2719-2724): the tree after the deletion, InvalidJsonType for a scalar
delete_value_by_keypath(value, keypath) ==
    IF value.t = "arr" THEN Ok(VArr(delete_value_array_by_keypath(value.e, keypath)))
    ELSE IF value.t = "obj" THEN Ok(VObj(delete_value_object_by_keypath(value.m, keypath)))
    ELSE Err("InvalidJsonType")

\* delete_by_keypath, the free function: the bytes appended to buf
delete_by_keypath(value, keypath) ==
    IF ~is_jsonb(value) THEN
        LET r == parse_value(value)
        IN  IF ~r.ok THEN r
            ELSE IF r.v.t = "arr" THEN
                Ok(Encode(VArr(delete_value_array_by_keypath(r.v.e, keypath))))
            ELSE IF r.v.t = "obj" THEN
                Ok(Encode(VObj(delete_value_object_by_keypath(r.v.m, keypath))))
            ELSE Err("InvalidJsonType")
    ELSE Ok(<<>>)

\* ---------------------------------------------------------------------
\* build_array, build_object (functions.rs 54-140).  Both give the result
\* and the buffer as the call leaves it, whether it returns Ok or Err.
\* ---------------------------------------------------------------------
\* the match on the header of one item: its JEntry bytes and the payload it
\* adds to the data (a scalar item is at least eight bytes long)
build_item(value, header) ==
    IF ~header.ok THEN header
    ELSE IF HeaderType(header.v) = SCALAR_CONTAINER_TAG THEN
        Ok([jentry |-> Slice(value, 4, 8), data |-> Drop(value, 8)])
    ELSE IF HeaderType(header.v) \in {ARRAY_CONTAINER_TAG, OBJECT_CONTAINER_TAG} THEN
        Ok([jentry |-> encoded_jentry(CONTAINER_TAG, Len(value)), data |-> value])
    ELSE Err("InvalidJsonbHeader")

\* buf with the four bytes at start overwritten by the header bytes
write_header(buf, start, header) == Take(buf, start) \o header \o Drop(buf, start + 4)

RECURSIVE build_array_loop(_, _, _, _, _, _)
\* the loop of build_array from item i on, then the header and the data: the
\* error of an item is returned, or its JEntry is pushed on buf
build_array_loop(items, i, start, buf, len, data) ==
    IF i > Len(items) THEN
        [ret |-> Ok("unit"),
         buf |-> write_header(buf, start, encoded_header(ARRAY_CONTAINER_TAG, len)) \o data]
    ELSE Let(build_item(items[i], read_u32(items[i], 0)), LAMBDA e :
             IF ~e.ok THEN [ret |-> e, buf |-> buf]
             ELSE build_array_loop(items, i + 1, start, buf \o e.v.jentry, len + 1,
                                   data \o e.v.data))

build_array(items, buf) ==
    build_array_loop(items, 1, Len(buf), buf \o << 0, 0, 0, 0 >>, 0, << >>)

RECURSIVE build_object_loop(_, _, _, _, _, _, _, _)
\* the loop of build_object from item i on: the key JEntry goes to buf and
\* the key to key_data before the value is looked at
build_object_loop(items, i, start, buf, len, key_data, val_data, val_jentries) ==
    IF i > Len(items) THEN
        [ret |-> Ok("unit"),
         buf |-> write_header(buf, start, encoded_header(OBJECT_CONTAINER_TAG, len))
                   \o val_jentries \o key_data \o val_data]
    ELSE Let(build_item(items[i][2], read_u32(items[i][2], 0)), LAMBDA e :
             IF ~e.ok
             THEN [ret |-> e, buf |-> buf \o encoded_jentry(STRING_TAG, Len(items[i][1]))]
             ELSE build_object_loop(items, i + 1, start,
                                    buf \o encoded_jentry(STRING_TAG, Len(items[i][1])),
                                    len + 1, key_data \o items[i][1],
                                    val_data \o e.v.data, val_jentries \o e.v.jentry))

build_object(items, buf) ==
    build_object_loop(items, 1, Len(buf), buf \o << 0, 0, 0, 0 >>, 0, << >>, << >>, << >>)

\* ---------------------------------------------------------------------
\* The iterators over an object and ObjectBuilder
\* ---------------------------------------------------------------------
RECURSIVE raw_slots(_, _, _, _, _, _)
\* the slots i..n-1 of the JEntry table at table (0-based word index), their
\* payloads from offset on: the JEntry and the payload bytes of each slot,
\* and the offset where the last payload ends
raw_slots(b, table, i, n, offset, acc) ==
    IF i = n THEN [slots |-> acc, end |-> offset]
    ELSE Let(decode_jentry(Slice(b, 4 * (table + i), 4 * (table + i) + 4)), LAMBDA jentry :
             raw_slots(b, table, i + 1, n, offset + jentry.length,
                       Append(acc, [jentry |-> jentry,
                                    item |-> Slice(b, offset, offset + jentry.length)])))

\* iterate_object_entries: (key, jentry, item) of every member, in stored order
iterate_object_entries(value, header) ==
    Let(HeaderLen(header), LAMBDA n :
    Let(raw_slots(value, 1, 0, n, 4 + 8 * n, << >>), LAMBDA ks :
    Let(raw_slots(value, 1 + n, 0, n, ks.end, << >>), LAMBDA vs :
        [j \in 1..n |-> [key |-> ks.slots[j].item, jentry |-> vs.slots[j].jentry,
                         item |-> vs.slots[j].item]])))

\* iteate_object_keys: the keys, in stored order
iteate_object_keys(value, header) ==
    Let(raw_slots(value, 1, 0, HeaderLen(header), 4 + 8 * HeaderLen(header), << >>), LAMBDA ks :
        [j \in 1..Len(ks.slots) |-> ks.slots[j].item])

\* ObjectBuilder::push_raw: BTreeMap::insert of the raw entry under its key
push_raw(builder, key, jentry, item) ==
    MapInsert(builder, key, [jentry |-> jentry, item |-> item])

RECURSIVE push_all_keeps_first(_, _)
\* push_all that leaves a key alone once it is in the builder
push_all_keeps_first(builder, entries) ==
    IF entries = << >> THEN builder
    ELSE push_all_keeps_first(
             IF \E j \in 1..Len(builder) : builder[j][1] = Head(entries).key THEN builder
             ELSE push_raw(builder, Head(entries).key, Head(entries).jentry,
                           Head(entries).item), Tail(entries))

RECURSIVE push_all(_, _)
\* push_raw on every entry an iterator yields
push_all(builder, entries) ==
    IF entries = << >> THEN builder
    ELSE push_all(push_raw(builder, Head(entries).key, Head(entries).jentry,
                           Head(entries).item), Tail(entries))

\* ObjectBuilder::build_into: header, key JEntries, value JEntries, keys, values
build_into(builder) ==
    encoded_header(OBJECT_CONTAINER_TAG, Len(builder))
      \o Flat([j \in 1..Len(builder) |-> encoded_jentry(STRING_TAG, Len(builder[j][1]))])
      \o Flat([j \in 1..Len(builder) |->
                 encoded_jentry(builder[j][2].jentry.type_code, builder[j][2].jentry.length)])
      \o Flat([j \in 1..Len(builder) |-> builder[j][1]])
      \o Flat([j \in 1..Len(builder) |-> builder[j][2].item])

\* ---------------------------------------------------------------------
\* RawJsonb::object_insert (functions.rs 1782-1853)
\* ---------------------------------------------------------------------
RECURSIVE object_insert_scan(_, _, _, _, _)
\* the loop over the keys: the index where the new key goes and whether
\* the key is there already
object_insert_scan(keys, i, idx, new_key, update_flag) ==
    IF i = Len(keys) THEN Ok([idx |-> idx, duplicate_key |-> FALSE])
    ELSE IF new_key = keys[i + 1] THEN
        IF ~update_flag THEN Err("ObjectDuplicateKey")
        ELSE Ok([idx |-> i, duplicate_key |-> TRUE])
    ELSE IF BytesCmp(new_key, keys[i + 1]) = "Greater" THEN
        object_insert_scan(keys, i + 1, i + 1, new_key, update_flag)
    ELSE Ok([idx |-> idx, duplicate_key |-> FALSE])

\* the JEntry and the payload of the new value
object_insert_new(new_value) ==
    Try(read_u32(new_value, 0), LAMBDA new_header :
        IF HeaderType(new_header) \in {ARRAY_CONTAINER_TAG, OBJECT_CONTAINER_TAG} THEN
            Ok([jentry |-> make_container_jentry(Len(new_value)), item |-> new_value])
        ELSE IF HeaderType(new_header) = SCALAR_CONTAINER_TAG THEN
            Try(read_u32(new_value, 4), LAMBDA encoded :
                Ok([jentry |-> decode_jentry(encoded), item |-> Drop(new_value, 8)]))
        ELSE Err("InvalidJsonb"))

\* object_insert_rest with nothing pushed after the new entry
object_insert_rest_dropped(entries, idx, duplicate_key) == << >>

\* object_insert_rest with the original of a duplicate key pushed again
object_insert_rest_keeps_original(entries, idx, duplicate_key) == Drop(entries, idx)

\* the entries pushed after the new one: what the iterator has left, the
\* original of a duplicate key skipped
object_insert_rest(entries, idx, duplicate_key) ==
    Drop(entries, IF duplicate_key THEN idx + 1 ELSE idx)

\* object_insert: the bytes build_into appends to buf
object_insert(value, new_key, new_value, update_flag) ==
    Try(read_u32(value, 0), LAMBDA header :
        IF HeaderType(header) = OBJECT_CONTAINER_TAG THEN
            Try(object_insert_scan(iteate_object_keys(value, header), 0, 0, new_key, update_flag), LAMBDA pos :
            Let(iterate_object_entries(value, header), LAMBDA entries :
            Try(object_insert_new(new_value), LAMBDA e :
                Ok(build_into(push_all(push_raw(push_all(<< >>, Take(entries, pos.idx)),
                                                new_key, e.jentry, e.item),
                                       object_insert_rest(entries, pos.idx, pos.duplicate_key)))))))
        ELSE IF HeaderType(header) \in {ARRAY_CONTAINER_TAG, SCALAR_CONTAINER_TAG} THEN
            Err("InvalidObject")
        ELSE Err("InvalidJsonb"))

\* ---------------------------------------------------------------------
\* get_jentry_by_name (functions.rs 2057-2103).  Some(x) is Ok(x), None is
\* an error result.
\* ---------------------------------------------------------------------
None == Err("None")

RECURSIVE get_jentry_by_name_keys(_, _, _, _, _)
\* the first loop: the key JEntries, and the offsets after them
get_jentry_by_name_keys(value, length, jentry_offset, val_offset, key_jentries) ==
    IF Len(key_jentries) = length
    THEN Ok([jentry_offset |-> jentry_offset, val_offset |-> val_offset,
             key_jentries |-> key_jentries])
    ELSE Try(read_u32(value, jentry_offset), LAMBDA encoded :
         Let(decode_jentry(encoded), LAMBDA key_jentry :
             get_jentry_by_name_keys(value, length, jentry_offset + 4,
                                     val_offset + key_jentry.length,
                                     Append(key_jentries, key_jentry))))

RECURSIVE get_jentry_by_name_find(_, _, _, _, _, _, _, _)
\* the second loop: the first key equal to name, or else the first key equal
\* to it ignoring ASCII case when ignore_case is set
get_jentry_by_name_find(value, key_jentries, jentry_offset, key_offset, val_offset, name, ignore_case, result) ==
    IF key_jentries = << >> THEN result
    ELSE Let(Slice(value, key_offset, key_offset + Head(key_jentries).length), LAMBDA key :
         Try(read_u32(value, jentry_offset), LAMBDA val_encoded :
         Let([jentry |-> decode_jentry(val_encoded), encoded |-> val_encoded,
              val_offset |-> val_offset], LAMBDA found :
             IF name = key THEN Ok(found)
             ELSE get_jentry_by_name_find(value, Tail(key_jentries), jentry_offset + 4,
                      key_offset + Head(key_jentries).length,
                      val_offset + found.jentry.length, name, ignore_case,
                      IF /\ ignore_case
                         /\ ~result.ok
                         /\ Len(name) = Len(key)
                         /\ \A j \in 1..Len(name) :
                               LET lower(c) == IF c \in 65..90 THEN c + 32 ELSE c
                               IN  lower(name[j]) = lower(key[j])
                      THEN Ok(found) ELSE result))))

\* get_jentry_by_name that never matches ignoring case
get_jentry_by_name_case_blind(value, offset, header, name, ignore_case) ==
    Let(HeaderLen(header), LAMBDA length :
    Let(Try(get_jentry_by_name_keys(value, length, offset + 4, offset + 8 * length + 4, << >>),
            LAMBDA k : get_jentry_by_name_find(value, k.key_jentries, k.jentry_offset,
                           offset + 8 * length + 4, k.val_offset, name, FALSE, None)),
        LAMBDA result : IF result.ok THEN result ELSE None))

get_jentry_by_name(value, offset, header, name, ignore_case) ==
    Let(HeaderLen(header), LAMBDA length :
    Let(Try(get_jentry_by_name_keys(value, length, offset + 4, offset + 8 * length + 4, << >>),
            LAMBDA k : get_jentry_by_name_find(value, k.key_jentries, k.jentry_offset,
                           offset + 8 * length + 4, k.val_offset, name, ignore_case, None)),
        LAMBDA result : IF result.ok THEN result ELSE None))

\* extract_by_jentry that returns the payload of a scalar as it is stored
extract_by_jentry_payload_only(jentry, encoded, offset, value) ==
    Slice(value, offset, offset + jentry.length)

\* extract_by_jentry (functions.rs 2219-2233): a container verbatim, a scalar
\* behind a scalar header and its JEntry word
extract_by_jentry(jentry, encoded, offset, value) ==
    IF jentry.type_code = CONTAINER_TAG THEN Slice(value, offset, offset + jentry.length)
    ELSE encoded_header(SCALAR_CONTAINER_TAG, 0) \o encoded
           \o (IF jentry.length > 0 THEN Slice(value, offset, offset + jentry.length)
               ELSE << >>)

\* get_jentry_by_index that returns the first element whatever the index
get_jentry_by_index_first(value, offset, header, index) ==
    IF index >= HeaderLen(header) THEN None
    ELSE Let(read_u32(value, offset + 4), LAMBDA encoded :
             IF ~encoded.ok THEN None
             ELSE Ok([jentry |-> decode_jentry(encoded.v), encoded |-> encoded.v,
                      val_offset |-> offset + 4 * HeaderLen(header) + 4]))

\* get_jentry_by_index (functions.rs 2105-2130)
get_jentry_by_index(value, offset, header, index) ==
    LET length == HeaderLen(header)
        RECURSIVE loop(_, _, _)
        loop(i, jentry_offset, val_offset) ==
            IF i = length THEN None
            ELSE Let(read_u32(value, jentry_offset), LAMBDA encoded :
                     IF ~encoded.ok THEN None
                     ELSE Let(decode_jentry(encoded.v), LAMBDA jentry :
                          IF i < index
                          THEN loop(i + 1, jentry_offset + 4, val_offset + jentry.length)
                          ELSE Ok([jentry |-> jentry, encoded |-> encoded.v,
                                   val_offset |-> val_offset])))
    IN  IF index >= length THEN None ELSE loop(0, offset + 4, offset + 4 * length + 4)

\* RawJsonb::get_by_name (functions.rs 1028-1043): Ok(Ok(bytes)) or Ok(None)
get_by_name(value, name, ignore_case) ==
    Try(read_u32(value, 0), LAMBDA header :
        IF HeaderType(header) = OBJECT_CONTAINER_TAG THEN
            Let(get_jentry_by_name(value, 0, header, name, ignore_case), LAMBDA found :
                IF found.ok
                THEN Ok(Ok(extract_by_jentry(found.v.jentry, found.v.encoded,
                                             found.v.val_offset, value)))
                ELSE Ok(None))
        ELSE IF HeaderType(header) \in {SCALAR_CONTAINER_TAG, ARRAY_CONTAINER_TAG} THEN Ok(None)
        ELSE Err("InvalidJsonb"))

\* Value::get_by_name that looks for the exact key only
Value_get_by_name_exact(self, name, ignore_case) ==
    IF self.t = "obj" /\ MapIndex(self.m, name) # 0
    THEN Ok(self.m[MapIndex(self.m, name)][2]) ELSE None

\* Value::get_by_name (value.rs 324-341) on a tree: Ok(value) or None.  The
\* keys of the BTreeMap are visited in their order.
Value_get_by_name(self, name, ignore_case) ==
    LET lower(key) == [j \in 1..Len(key) |-> IF key[j] \in 65..90 THEN key[j] + 32 ELSE key[j]]
        RECURSIVE keys(_)
        keys(j) ==
            IF j > Len(self.m) THEN None
            ELSE IF lower(name) = lower(self.m[j][1])
            THEN Ok(self.m[MapIndex(self.m, self.m[j][1])][2])
            ELSE keys(j + 1)
    IN  IF self.t = "obj" THEN
            IF MapIndex(self.m, name) # 0 THEN Ok(self.m[MapIndex(self.m, name)][2])
            ELSE IF ignore_case THEN keys(1)
            ELSE None
        ELSE None

\* RawJsonb::get_by_keypath (functions.rs 1047-1105): Ok(Ok(bytes)) or Ok(None).
\* curr holds curr_val_offset, curr_jentry_encoded and curr_jentry.
get_by_keypath(value, keypaths) ==
    LET RECURSIVE walk(_, _)
        walk(paths, curr) ==
            IF paths = << >> THEN
                IF curr.val_offset = 0 THEN Ok(Ok(value))
                ELSE IF curr.jentry.ok
                THEN Ok(Ok(extract_by_jentry(curr.jentry.v, curr.encoded, curr.val_offset, value)))
                ELSE Ok(None)
            ELSE IF curr.jentry.ok /\ curr.jentry.v.type_code # CONTAINER_TAG THEN Ok(None)
            ELSE Try(read_u32(value, curr.val_offset), LAMBDA header :
                 Let(HeaderLen(header), LAMBDA length :
                 IF Head(paths).t = "Name" /\ HeaderType(header) = OBJECT_CONTAINER_TAG THEN
                     Let(get_jentry_by_name(value, curr.val_offset, header, Head(paths).s, FALSE),
                         LAMBDA found :
                             IF found.ok
                             THEN walk(Tail(paths), [val_offset |-> found.v.val_offset,
                                                     encoded |-> found.v.encoded,
                                                     jentry |-> Ok(found.v.jentry)])
                             ELSE Ok(None))
                 ELSE IF Head(paths).t = "Index" /\ HeaderType(header) = ARRAY_CONTAINER_TAG THEN
                     IF Head(paths).i > length \/ length + Head(paths).i < 0 THEN Ok(None)
                     ELSE Let(get_jentry_by_index(value, curr.val_offset, header,
                                  IF Head(paths).i >= 0 THEN Head(paths).i
                                  ELSE length + Head(paths).i),
                              LAMBDA found :
                                  IF found.ok
                                  THEN walk(Tail(paths), [val_offset |-> found.v.val_offset,
                                                          encoded |-> found.v.encoded,
                                                          jentry |-> Ok(found.v.jentry)])
                                  ELSE Ok(None))
                 ELSE Ok(None)))
    IN  walk(keypaths, [val_offset |-> 0, encoded |-> << 0, 0, 0, 0 >>, jentry |-> None])

\* RawJsonb::array_length (functions.rs 144-157): Ok(Ok(length)) or Ok(None)
array_length(value) ==
    Try(read_u32(value, 0), LAMBDA header :
        IF HeaderType(header) = ARRAY_CONTAINER_TAG THEN Ok(Ok(HeaderLen(header)))
        ELSE IF HeaderType(header) \in {OBJECT_CONTAINER_TAG, SCALAR_CONTAINER_TAG} THEN Ok(None)
        ELSE Err("InvalidJsonb"))

\* RawJsonb::array_values (functions.rs 331-354): Ok(Ok(items)) or Ok(None)
array_values(value) ==
    LET RECURSIVE loop(_, _, _, _)
        loop(n, jentry_offset, val_offset, items) ==
            IF n = 0 THEN Ok(Ok(items))
            ELSE Try(read_u32(value, jentry_offset), LAMBDA encoded :
                 Let(decode_jentry(encoded), LAMBDA jentry :
                     loop(n - 1, jentry_offset + 4, val_offset + jentry.length,
                          Append(items, extract_by_jentry(jentry, encoded, val_offset, value)))))
    IN  Try(read_u32(value, 0), LAMBDA header :
            IF HeaderType(header) = ARRAY_CONTAINER_TAG
            THEN loop(HeaderLen(header), 4, 4 * HeaderLen(header) + 4, << >>)
            ELSE IF HeaderType(header) \in {OBJECT_CONTAINER_TAG, SCALAR_CONTAINER_TAG}
            THEN Ok(None)
            ELSE Err("InvalidJsonb"))

\* RawJsonb::type_of (functions.rs 358-377)
type_of(value) ==
    Try(read_u32(value, 0), LAMBDA header :
        IF HeaderType(header) = SCALAR_CONTAINER_TAG THEN
            Try(read_u32(value, 4), LAMBDA encoded :
            Let(decode_jentry(encoded), LAMBDA jentry :
                IF jentry.type_code = NULL_TAG THEN Ok("null")
                ELSE IF jentry.type_code \in {TRUE_TAG, FALSE_TAG} THEN Ok("boolean")
                ELSE IF jentry.type_code = NUMBER_TAG THEN Ok("number")
                ELSE IF jentry.type_code = STRING_TAG THEN Ok("string")
                ELSE Err("InvalidJsonbJEntry")))
        ELSE IF HeaderType(header) = ARRAY_CONTAINER_TAG THEN Ok("array")
        ELSE IF HeaderType(header) = OBJECT_CONTAINER_TAG THEN Ok("object")
        ELSE Err("InvalidJsonbHeader"))

\* RawJsonb::get_by_index (functions.rs 1009-1024): Ok(Ok(bytes)) or Ok(None)
get_by_index(value, index) ==
    Try(read_u32(value, 0), LAMBDA header :
        IF HeaderType(header) = ARRAY_CONTAINER_TAG THEN
            Let(get_jentry_by_index(value, 0, header, index), LAMBDA found :
                IF found.ok
                THEN Ok(Ok(extract_by_jentry(found.v.jentry, found.v.encoded,
                                             found.v.val_offset, value)))
                ELSE Ok(None))
        ELSE IF HeaderType(header) \in {SCALAR_CONTAINER_TAG, OBJECT_CONTAINER_TAG} THEN Ok(None)
        ELSE Err("InvalidJsonb"))

\* ---------------------------------------------------------------------
\* RawJsonb::contains (functions.rs 160-252)
\* ---------------------------------------------------------------------
\* iterate_array: (jentry, item) of every element, in order
iterate_array(value, header) ==
    raw_slots(value, 1, 0, HeaderLen(header), 4 + 4 * HeaderLen(header), << >>).slots

\* array_contains that does not look at the first element
array_contains_skips_first(arr, arr_header, val, val_jentry) ==
    \E j \in 2..HeaderLen(arr_header) :
        /\ iterate_array(arr, arr_header)[j].jentry.type_code = val_jentry.type_code
        /\ val = iterate_array(arr, arr_header)[j].item

array_contains(arr, arr_header, val, val_jentry) ==
    \E j \in 1..HeaderLen(arr_header) :
        /\ iterate_array(arr, arr_header)[j].jentry.type_code = val_jentry.type_code
        /\ val = iterate_array(arr, arr_header)[j].item

RECURSIVE containter_contains(_, _)

RECURSIVE contains_entries(_, _, _)
\* the loop over the members of the right object
contains_entries(left, l_header, entries) ==
    IF entries = << >> THEN Ok(TRUE)
    ELSE Let(Head(entries), LAMBDA r :
         Let(get_jentry_by_name(left, 0, l_header, r.key, FALSE), LAMBDA found :
             IF ~found.ok THEN Ok(FALSE)
             ELSE IF found.v.jentry.type_code # r.jentry.type_code THEN Ok(FALSE)
             ELSE Let(Slice(left, found.v.val_offset,
                            found.v.val_offset + found.v.jentry.length), LAMBDA l_val :
                  IF r.jentry.type_code # CONTAINER_TAG THEN
                      IF l_val # r.item THEN Ok(FALSE)
                      ELSE contains_entries(left, l_header, Tail(entries))
                  ELSE Try(containter_contains(l_val, r.item), LAMBDA c :
                           IF ~c THEN Ok(FALSE)
                           ELSE contains_entries(left, l_header, Tail(entries))))))

\* contains_nested that tries only the first nested container of the left
contains_nested_first_only(l_nested, r_val) ==
    IF l_nested = << >> THEN Ok(FALSE) ELSE containter_contains(Head(l_nested).item, r_val)

RECURSIVE contains_nested(_, _)
\* the loop over the nested containers of the left array
contains_nested(l_nested, r_val) ==
    IF l_nested = << >> THEN Ok(FALSE)
    ELSE Try(containter_contains(Head(l_nested).item, r_val), LAMBDA c :
             IF c THEN Ok(TRUE) ELSE contains_nested(Tail(l_nested), r_val))

RECURSIVE contains_items(_, _, _)
\* the loop over the elements of the right array
contains_items(left, l_header, r_items) ==
    IF r_items = << >> THEN Ok(TRUE)
    ELSE IF Head(r_items).jentry.type_code # CONTAINER_TAG THEN
        IF ~array_contains(left, l_header, Head(r_items).item, Head(r_items).jentry)
        THEN Ok(FALSE)
        ELSE contains_items(left, l_header, Tail(r_items))
    ELSE Try(contains_nested(SelectSeq(iterate_array(left, l_header),
                                       LAMBDA e : e.jentry.type_code = CONTAINER_TAG),
                             Head(r_items).item), LAMBDA contains_nested_val :
             IF ~contains_nested_val THEN Ok(FALSE)
             ELSE contains_items(left, l_header, Tail(r_items)))

containter_contains(left, right) ==
    Try(read_u32(left, 0), LAMBDA l_header :
    Try(read_u32(right, 0), LAMBDA r_header :
        IF /\ HeaderType(l_header) = ARRAY_CONTAINER_TAG
           /\ HeaderType(r_header) = SCALAR_CONTAINER_TAG
        THEN Try(read_u32(right, 4), LAMBDA encoded :
                 Ok(array_contains(left, l_header, Drop(right, 8), decode_jentry(encoded))))
        ELSE IF HeaderType(l_header) # HeaderType(r_header) THEN Ok(FALSE)
        ELSE IF HeaderType(r_header) = OBJECT_CONTAINER_TAG THEN
            IF HeaderLen(l_header) < HeaderLen(r_header) THEN Ok(FALSE)
            ELSE contains_entries(left, l_header, iterate_object_entries(right, r_header))
        ELSE IF HeaderType(r_header) = ARRAY_CONTAINER_TAG THEN
            contains_items(left, l_header, iterate_array(right, r_header))
        ELSE Ok(left = right)))

contains(left_value, other) == containter_contains(left_value, other)

\* ---------------------------------------------------------------------
\* RawJsonb::array_intersection, array_except (functions.rs 1585-1718).  An
\* ArrayBuilder is the sequence of the (jentry, item) entries pushed.
\* ---------------------------------------------------------------------
\* ArrayBuilder::build_into: header, JEntries, payloads
array_build_into(builder) ==
    encoded_header(ARRAY_CONTAINER_TAG, Len(builder))
      \o Flat([j \in 1..Len(builder) |->
                 encoded_jentry(builder[j].jentry.type_code, builder[j].jentry.length)])
      \o Flat([j \in 1..Len(builder) |-> builder[j].item])

\* item_map with every entry of the right array counted once
item_map_counts_once(right, right_header) ==
    IF HeaderType(right_header) = ARRAY_CONTAINER_TAG
    THEN Ok([e \in { iterate_array(right, right_header)[j] : j \in 1..HeaderLen(right_header) } |-> 1])
    ELSE Err("InvalidJsonb")

\* the item_map of both functions: how many times each (jentry, item) occurs
\* in the right value, a non-array counting as its own single entry
item_map(right, right_header) ==
    LET RECURSIVE count(_, _)
        count(entries, m) ==
            IF entries = << >> THEN m
            ELSE count(Tail(entries),
                       IF Head(entries) \in DOMAIN m
                       THEN [m EXCEPT ![Head(entries)] = @ + 1]
                       ELSE m @@ (Head(entries) :> 1))
    IN  IF HeaderType(right_header) = ARRAY_CONTAINER_TAG THEN
            Ok(count(iterate_array(right, right_header), << >>))
        ELSE IF HeaderType(right_header) = OBJECT_CONTAINER_TAG THEN
            Ok([jentry |-> make_container_jentry(Len(right)), item |-> right] :> 1)
        ELSE IF HeaderType(right_header) = SCALAR_CONTAINER_TAG THEN
            Try(read_u32(right, 4), LAMBDA encoded :
                Ok([jentry |-> decode_jentry(encoded), item |-> Drop(right, 8)] :> 1))
        ELSE Err("InvalidJsonb")

\* the entry a non-array left value stands for
left_entry(left, left_header) ==
    IF HeaderType(left_header) = OBJECT_CONTAINER_TAG THEN
        Ok([jentry |-> make_container_jentry(Len(left)), item |-> left])
    ELSE IF HeaderType(left_header) = SCALAR_CONTAINER_TAG THEN
        Try(read_u32(left, 4), LAMBDA encoded :
            Ok([jentry |-> decode_jentry(encoded), item |-> Drop(left, 8)]))
    ELSE Err("InvalidJsonb")

\* array_overlap that looks at the last element of the left array only
array_overlap_last(left, right) ==
    Try(read_u32(left, 0), LAMBDA left_header :
    Try(read_u32(right, 0), LAMBDA right_header :
        Ok(/\ HeaderType(left_header) = ARRAY_CONTAINER_TAG
           /\ HeaderType(right_header) = ARRAY_CONTAINER_TAG
           /\ HeaderLen(left_header) > 0
           /\ \E j \in 1..HeaderLen(right_header) :
                  iterate_array(right, right_header)[j]
                      = iterate_array(left, left_header)[HeaderLen(left_header)])))

\* RawJsonb::array_overlap (functions.rs 1722-1779).  item_set holds the
\* (jentry, item) pairs of the right value, a non-array standing for its own
\* single pair.
array_overlap(left, right) ==
    Try(read_u32(left, 0), LAMBDA left_header :
    Try(read_u32(right, 0), LAMBDA right_header :
    Try(IF HeaderType(right_header) = ARRAY_CONTAINER_TAG
        THEN Ok({ iterate_array(right, right_header)[j] : j \in 1..HeaderLen(right_header) })
        ELSE Try(left_entry(right, right_header), LAMBDA e : Ok({ e })), LAMBDA item_set :
        IF HeaderType(left_header) = ARRAY_CONTAINER_TAG
        THEN Ok(\E j \in 1..HeaderLen(left_header) :
                    iterate_array(left, left_header)[j] \in item_set)
        ELSE Try(left_entry(left, left_header), LAMBDA e : Ok(e \in item_set)))))

array_intersection(left, right) ==
    LET RECURSIVE keep(_, _, _)
        keep(entries, m, builder) ==
            IF entries = << >> THEN builder
            ELSE IF Head(entries) \in DOMAIN m /\ m[Head(entries)] > 0
            THEN keep(Tail(entries), [m EXCEPT ![Head(entries)] = @ - 1],
                      Append(builder, Head(entries)))
            ELSE keep(Tail(entries), m, builder)
    IN  Try(read_u32(left, 0), LAMBDA left_header :
        Try(read_u32(right, 0), LAMBDA right_header :
        Try(item_map(right, right_header), LAMBDA m :
            IF HeaderType(left_header) = ARRAY_CONTAINER_TAG THEN
                Ok(array_build_into(keep(iterate_array(left, left_header), m, << >>)))
            ELSE Try(left_entry(left, left_header), LAMBDA e :
                     Ok(array_build_into(IF e \in DOMAIN m THEN << e >> ELSE << >>))))))

array_except(left, right) ==
    LET RECURSIVE keep(_, _, _)
        keep(entries, m, builder) ==
            IF entries = << >> THEN builder
            ELSE IF Head(entries) \in DOMAIN m /\ m[Head(entries)] > 0
            THEN keep(Tail(entries), [m EXCEPT ![Head(entries)] = @ - 1], builder)
            ELSE keep(Tail(entries), m, Append(builder, Head(entries)))
    IN  Try(read_u32(left, 0), LAMBDA left_header :
        Try(read_u32(right, 0), LAMBDA right_header :
        Try(item_map(right, right_header), LAMBDA m :
            IF HeaderType(left_header) = ARRAY_CONTAINER_TAG THEN
                Ok(array_build_into(keep(iterate_array(left, left_header), m, << >>)))
            ELSE Try(left_entry(left, left_header), LAMBDA e :
                     Ok(array_build_into(IF e \notin DOMAIN m THEN << e >> ELSE << >>))))))

\* ---------------------------------------------------------------------
\* RawJsonb::delete_by_index (functions.rs 1444-1470)
\* ---------------------------------------------------------------------
\* i32::MIN
\* RawJsonb::concat (functions.rs 1223-1320).  The eight arms that build an
\* array push, for each side in turn, the elements of an array, an object as
\* one container entry, or a scalar as its own JEntry and payload.
RawJsonb_concat(left, right) ==
    Try(read_u32(left, 0), LAMBDA left_header :
    Try(read_u32(right, 0), LAMBDA right_header :
        LET pushed(value, header) ==
                IF HeaderType(header) = ARRAY_CONTAINER_TAG THEN Ok(iterate_array(value, header))
                ELSE IF HeaderType(header) = OBJECT_CONTAINER_TAG
                THEN Ok(<< [jentry |-> make_container_jentry(Len(value)), item |-> value] >>)
                ELSE Try(read_u32(value, 4), LAMBDA encoded :
                         Ok(<< [jentry |-> decode_jentry(encoded), item |-> Drop(value, 8)] >>))
        IN  IF /\ HeaderType(left_header) = OBJECT_CONTAINER_TAG
               /\ HeaderType(right_header) = OBJECT_CONTAINER_TAG
            THEN Ok(build_into(push_all(push_all(<< >>, iterate_object_entries(left, left_header)),
                                        iterate_object_entries(right, right_header))))
            ELSE IF {HeaderType(left_header), HeaderType(right_header)}
                      \subseteq {ARRAY_CONTAINER_TAG, OBJECT_CONTAINER_TAG, SCALAR_CONTAINER_TAG}
            THEN Try(pushed(left, left_header), LAMBDA l :
                 Try(pushed(right, right_header), LAMBDA r : Ok(array_build_into(l \o r))))
            ELSE Err("InvalidJsonb")))

\* strip_nulls_array that drops the null elements and does not descend
strip_nulls_array_drops_nulls(header, value) ==
    Ok(SelectSeq(iterate_array(value, header), LAMBDA e : e.jentry.type_code # NULL_TAG))

RECURSIVE strip_nulls_array(_, _)
RECURSIVE strip_nulls_object(_, _)

\* RawJsonb::strip_nulls_array (functions.rs 1345-1373): the entries of the
\* builder, or an error
strip_nulls_array(header, value) ==
    LET RECURSIVE loop(_, _)
        loop(entries, builder) ==
            IF entries = << >> THEN Ok(builder)
            ELSE Let(Head(entries).jentry, LAMBDA jentry :
                 Let(Head(entries).item, LAMBDA item :
                 IF jentry.type_code = CONTAINER_TAG THEN
                     Try(read_u32(item, 0), LAMBDA item_header :
                         IF HeaderType(item_header) = OBJECT_CONTAINER_TAG THEN
                             Try(strip_nulls_object(item_header, item), LAMBDA b :
                                 loop(Tail(entries),
                                      Append(builder,
                                             [jentry |-> make_container_jentry(Len(build_into(b))),
                                              item |-> build_into(b)])))
                         ELSE IF HeaderType(item_header) = ARRAY_CONTAINER_TAG THEN
                             Try(strip_nulls_array(item_header, item), LAMBDA b :
                                 loop(Tail(entries),
                                      Append(builder,
                                             [jentry |-> make_container_jentry(Len(array_build_into(b))),
                                              item |-> array_build_into(b)])))
                         ELSE Err("InvalidJsonb"))
                 ELSE IF jentry.type_code \in {NULL_TAG, STRING_TAG, NUMBER_TAG, FALSE_TAG, TRUE_TAG}
                 THEN loop(Tail(entries), Append(builder, Head(entries)))
                 ELSE Err("InvalidJsonb")))
    IN  loop(iterate_array(value, header), << >>)

\* RawJsonb::strip_nulls_object (functions.rs 1375-1404): the map of the
\* builder, or an error
strip_nulls_object(header, value) ==
    LET RECURSIVE loop(_, _)
        loop(entries, builder) ==
            IF entries = << >> THEN Ok(builder)
            ELSE Let(Head(entries).jentry, LAMBDA jentry :
                 Let(Head(entries).item, LAMBDA item :
                 IF jentry.type_code = CONTAINER_TAG THEN
                     Try(read_u32(item, 0), LAMBDA item_header :
                         IF HeaderType(item_header) = OBJECT_CONTAINER_TAG THEN
                             Try(strip_nulls_object(item_header, item), LAMBDA b :
                                 loop(Tail(entries),
                                      push_raw(builder, Head(entries).key,
                                               make_container_jentry(Len(build_into(b))),
                                               build_into(b))))
                         ELSE IF HeaderType(item_header) = ARRAY_CONTAINER_TAG THEN
                             Try(strip_nulls_array(item_header, item), LAMBDA b :
                                 loop(Tail(entries),
                                      push_raw(builder, Head(entries).key,
                                               make_container_jentry(Len(array_build_into(b))),
                                               array_build_into(b))))
                         ELSE Err("InvalidJsonb"))
                 ELSE IF jentry.type_code = NULL_TAG THEN loop(Tail(entries), builder)
                 ELSE IF jentry.type_code \in {STRING_TAG, NUMBER_TAG, FALSE_TAG, TRUE_TAG}
                 THEN loop(Tail(entries), push_raw(builder, Head(entries).key, jentry, item))
                 ELSE Err("InvalidJsonb")))
    IN  loop(iterate_object_entries(value, header), << >>)

\* RawJsonb::strip_nulls (functions.rs 1324-1343)
RawJsonb_strip_nulls(value) ==
    Try(read_u32(value, 0), LAMBDA header :
        IF HeaderType(header) = OBJECT_CONTAINER_TAG
        THEN Try(strip_nulls_object(header, value), LAMBDA builder : Ok(build_into(builder)))
        ELSE IF HeaderType(header) = ARRAY_CONTAINER_TAG
        THEN Try(strip_nulls_array(header, value), LAMBDA builder : Ok(array_build_into(builder)))
        ELSE IF HeaderType(header) = SCALAR_CONTAINER_TAG THEN Ok(value)
        ELSE Err("InvalidJsonb"))

\* delete_by_index.  index.abs() and the subtraction overflow for i32::MIN:
\* a build with overflow checks panics there, a build without them wraps
\* (abs gives i32::MIN back and len - i32::MIN wraps to len + i32::MIN).
delete_by_index(value, index, overflow_checks) ==
    Try(read_u32(value, 0), LAMBDA header :
        IF HeaderType(header) = ARRAY_CONTAINER_TAG THEN
            IF index = I32_MIN /\ overflow_checks THEN Err("panic")
            ELSE Let(HeaderLen(header), LAMBDA len :
                 Let(IF index = I32_MIN THEN len + I32_MIN
                     ELSE IF index < 0 THEN len - Abs(index)
                     ELSE index, LAMBDA idx :
                     IF idx < 0 \/ idx >= len THEN Ok(value)
                     ELSE Ok(array_build_into(RemoveAt(iterate_array(value, header), idx + 1)))))
        ELSE IF HeaderType(header) \in {SCALAR_CONTAINER_TAG, OBJECT_CONTAINER_TAG} THEN
            Err("InvalidJsonType")
        ELSE Err("InvalidJsonb"))

\* RawJsonb::array_insert (functions.rs 1473-1549).  pos.abs() overflows for
\* i32::MIN as index.abs() does in delete_by_index.
array_insert(value, pos, new_value, overflow_checks) ==
    Try(read_u32(value, 0), LAMBDA header :
        IF HeaderType(header) \notin {ARRAY_CONTAINER_TAG, SCALAR_CONTAINER_TAG, OBJECT_CONTAINER_TAG}
        THEN Err("InvalidJsonb")
        ELSE IF pos = I32_MIN /\ overflow_checks THEN Err("panic")
        ELSE Let(IF HeaderType(header) = ARRAY_CONTAINER_TAG THEN HeaderLen(header) ELSE 1,
                 LAMBDA len :
             Let(IF pos = I32_MIN THEN len + I32_MIN
                 ELSE IF pos < 0 THEN len - Abs(pos) ELSE pos, LAMBDA wrapped :
             Let(IF wrapped < 0 THEN 0 ELSE IF wrapped > len THEN len ELSE wrapped, LAMBDA idx :
             Try(IF HeaderType(header) = ARRAY_CONTAINER_TAG THEN Ok(iterate_array(value, header))
                 ELSE IF HeaderType(header) = OBJECT_CONTAINER_TAG
                 THEN Ok(<< [jentry |-> make_container_jentry(Len(value)), item |-> value] >>)
                 ELSE Try(read_u32(value, 4), LAMBDA encoded :
                          Ok(<< [jentry |-> decode_jentry(encoded), item |-> Drop(value, 8)] >>)),
                 LAMBDA items :
             Try(read_u32(new_value, 0), LAMBDA new_header :
             Try(IF HeaderType(new_header) \in {ARRAY_CONTAINER_TAG, OBJECT_CONTAINER_TAG}
                 THEN Ok([jentry |-> make_container_jentry(Len(new_value)), item |-> new_value])
                 ELSE Try(read_u32(new_value, 4), LAMBDA encoded :
                          Ok([jentry |-> decode_jentry(encoded), item |-> Drop(new_value, 8)])),
                 LAMBDA pushed :
                     Ok(array_build_into(Take(items, Min(idx, Len(items))) \o << pushed >>
                                           \o Drop(items, Min(idx, Len(items))))))))))))

RECURSIVE delete_array_by_keypath(_, _, _, _)
RECURSIVE delete_object_by_keypath(_, _, _, _)

\* RawJsonb::delete_array_by_keypath: Ok(Ok(builder)), Ok(None) or an error.
\* The builder is the sequence of raw entries; a nested builder pushed with
\* push_array / push_object is the entry of the container it builds.
delete_array_by_keypath(value, header, keypath, overflow_checks) ==
    IF keypath = << >> \/ Head(keypath).t # "Index" THEN Ok(None)
    ELSE IF Head(keypath).i = I32_MIN /\ overflow_checks THEN Err("panic")
    ELSE Let(HeaderLen(header), LAMBDA len :
         Let(IF Head(keypath).i = I32_MIN THEN len + I32_MIN
             ELSE IF Head(keypath).i < 0 THEN len - Abs(Head(keypath).i)
             ELSE Head(keypath).i, LAMBDA idx :
         IF idx < 0 \/ idx >= len THEN Ok(None)
         ELSE Let(iterate_array(value, header), LAMBDA entries :
              IF Tail(keypath) = << >> THEN Ok(Ok(RemoveAt(entries, idx + 1)))
              ELSE IF entries[idx + 1].jentry.type_code # CONTAINER_TAG THEN Ok(None)
              ELSE Try(read_u32(entries[idx + 1].item, 0), LAMBDA item_header :
                   IF HeaderType(item_header) = ARRAY_CONTAINER_TAG THEN
                       Try(delete_array_by_keypath(entries[idx + 1].item, item_header,
                                                   Tail(keypath), overflow_checks),
                           LAMBDA found : IF ~found.ok THEN Ok(None)
                               ELSE Let(array_build_into(found.v), LAMBDA item :
                                    Ok(Ok([entries EXCEPT ![idx + 1] =
                                             [jentry |-> [type_code |-> CONTAINER_TAG,
                                                          length |-> Len(item)],
                                              item |-> item]]))))
                   ELSE IF HeaderType(item_header) = OBJECT_CONTAINER_TAG THEN
                       Try(delete_object_by_keypath(entries[idx + 1].item, item_header,
                                                    Tail(keypath), overflow_checks),
                           LAMBDA found : IF ~found.ok THEN Ok(None)
                               ELSE Let(build_into(found.v), LAMBDA item :
                                    Ok(Ok([entries EXCEPT ![idx + 1] =
                                             [jentry |-> [type_code |-> CONTAINER_TAG,
                                                          length |-> Len(item)],
                                              item |-> item]]))))
                   ELSE Err("unreachable")))))

\* RawJsonb::delete_object_by_keypath: Ok(Ok(builder)), Ok(None) or an error.
\* The builder is the BTreeMap of the raw entries that are kept.
delete_object_by_keypath(value, header, keypath, overflow_checks) ==
    IF keypath = << >> \/ Head(keypath).t # "Name" THEN Ok(None)
    ELSE Let(iterate_object_entries(value, header), LAMBDA entries :
         Let({ j \in 1..Len(entries) : entries[j].key = Head(keypath).s }, LAMBDA at :
         IF at = { } THEN Ok(Ok(push_all(<< >>, entries)))
         ELSE Let(CHOOSE j \in at : TRUE, LAMBDA j :
              IF Tail(keypath) = << >> THEN Ok(Ok(push_all(<< >>, RemoveAt(entries, j))))
              ELSE IF entries[j].jentry.type_code # CONTAINER_TAG THEN Ok(None)
              ELSE Try(read_u32(entries[j].item, 0), LAMBDA item_header :
                   IF HeaderType(item_header) = ARRAY_CONTAINER_TAG THEN
                       Try(delete_array_by_keypath(entries[j].item, item_header,
                                                   Tail(keypath), overflow_checks),
                           LAMBDA found : IF ~found.ok THEN Ok(None)
                               ELSE Let(array_build_into(found.v), LAMBDA item :
                                    Ok(Ok(push_raw(push_all(<< >>, RemoveAt(entries, j)),
                                                   entries[j].key,
                                                   [type_code |-> CONTAINER_TAG,
                                                    length |-> Len(item)], item)))))
                   ELSE IF HeaderType(item_header) = OBJECT_CONTAINER_TAG THEN
                       Try(delete_object_by_keypath(entries[j].item, item_header,
                                                    Tail(keypath), overflow_checks),
                           LAMBDA found : IF ~found.ok THEN Ok(None)
                               ELSE Let(build_into(found.v), LAMBDA item :
                                    Ok(Ok(push_raw(push_all(<< >>, RemoveAt(entries, j)),
                                                   entries[j].key,
                                                   [type_code |-> CONTAINER_TAG,
                                                    length |-> Len(item)], item)))))
                   ELSE Err("unreachable")))))

\* RawJsonb::delete_by_keypath
RawJsonb_delete_by_keypath(value, keypath, overflow_checks) ==
    Try(read_u32(value, 0), LAMBDA header :
        IF HeaderType(header) = ARRAY_CONTAINER_TAG THEN
            Try(delete_array_by_keypath(value, header, keypath, overflow_checks),
                LAMBDA builder : IF builder.ok THEN Ok(array_build_into(builder.v))
                                 ELSE Ok(value))
        ELSE IF HeaderType(header) = OBJECT_CONTAINER_TAG THEN
            Try(delete_object_by_keypath(value, header, keypath, overflow_checks),
                LAMBDA builder : IF builder.ok THEN Ok(build_into(builder.v))
                                 ELSE Ok(value))
        ELSE Err("InvalidJsonType"))

\* ---------------------------------------------------------------------
\* JSONPath selector (src/src/jsonpath/selector.rs)
\* A path step is a record with its kind in t; an expression is a BinaryOp,
\* a Value or Paths; a queue item is a Container or a Scalar with its bytes.
\* ---------------------------------------------------------------------
PRoot == [t |-> "Root"]
PCurrent == [t |-> "Current"]
PDotField(name) == [t |-> "DotField", name |-> name]
PArrayIndices(indices) == [t |-> "ArrayIndices", indices |-> indices]
PFilterExpr(expr) == [t |-> "FilterExpr", expr |-> expr]
EBinaryOp(op, l, r) == [t |-> "BinaryOp", op |-> op, left |-> l, right |-> r]
EValue(v) == [t |-> "Value", v |-> v]
EPaths(paths) == [t |-> "Paths", paths |-> paths]

\* PathValue, and its partial_cmp: the scalar order of the comparator
\* (null over strings over numbers over true over false)
PVNull == [t |-> "Null"]
PVBoolean(b) == [t |-> "Boolean", b |-> b]
PVNumber(n) == [t |-> "Number", n |-> n]
PVString(s) == [t |-> "String", s |-> s]

PathValueLevel(v) ==
    IF v.t = "Null" THEN NULL_LEVEL
    ELSE IF v.t = "String" THEN STRING_LEVEL
    ELSE IF v.t = "Number" THEN NUMBER_LEVEL
    ELSE IF v.b THEN TRUE_LEVEL ELSE FALSE_LEVEL

partial_cmp(lhs, rhs) ==
    IF PathValueLevel(lhs) # PathValueLevel(rhs)
    THEN Ok(IntCmp(PathValueLevel(lhs), PathValueLevel(rhs)))
    ELSE IF lhs.t = "String" THEN Ok(BytesCmp(lhs.s, rhs.s))
    ELSE IF lhs.t = "Number" THEN Ok(NumberCmp(lhs.n, rhs.n))
    ELSE Ok("Equal")

\* the item pushed for the value val of a JEntry: a container is borrowed, a
\* scalar gets a scalar header and its JEntry word in front
pushed_item(jentry, val) ==
    IF jentry.type_code = CONTAINER_TAG THEN [t |-> "Container", v |-> val]
    ELSE [t |-> "Scalar",
          v |-> encoded_header(SCALAR_CONTAINER_TAG, 0)
                  \o encoded_jentry(jentry.type_code, jentry.length) \o val]

\* Selector::select_by_name: the items pushed on the queue
select_by_name(current, name) ==
    Let(Take(current, 4), LAMBDA header :
        IF HeaderType(header) # OBJECT_CONTAINER_TAG \/ HeaderLen(header) = 0 THEN << >>
        ELSE Let(iterate_object_entries(current, header), LAMBDA entries :
             Let({ i \in 1..Len(entries) : entries[i].key = name }, LAMBDA found :
                 IF found = { } THEN << >>
                 ELSE Let(CHOOSE i \in found : \A k \in found : i <= k, LAMBDA idx :
                          << pushed_item(entries[idx].jentry, entries[idx].item) >>))))

\* Selector::select_all_object_values
select_all_object_values(current) ==
    Let(Take(current, 4), LAMBDA header :
        IF HeaderType(header) # OBJECT_CONTAINER_TAG \/ HeaderLen(header) = 0 THEN << >>
        ELSE Let(iterate_object_entries(current, header), LAMBDA entries :
                 [i \in 1..Len(entries) |-> pushed_item(entries[i].jentry, entries[i].item)]))

\* Selector::select_all_values
select_all_values(current) ==
    Let(Take(current, 4), LAMBDA header :
        IF HeaderType(header) # ARRAY_CONTAINER_TAG THEN << [t |-> "Container", v |-> current] >>
        ELSE Let(iterate_array(current, header), LAMBDA entries :
                 [i \in 1..Len(entries) |-> pushed_item(entries[i].jentry, entries[i].item)]))

\* Selector::convert_index: Some(idx) or None
convert_index(index, length) ==
    Let(IF index.t = "Index" THEN index.i ELSE length + index.i - 1, LAMBDA idx :
        IF idx >= 0 /\ idx < length THEN Ok(idx) ELSE None)

\* Selector::convert_slice: Some(indexes) or None
convert_slice(start, end, length) ==
    Let(IF start.t = "Index" THEN start.i ELSE length + start.i - 1, LAMBDA s :
    Let(IF end.t = "Index" THEN end.i ELSE length + end.i - 1, LAMBDA e :
        IF s > e \/ s >= length \/ e < 0 THEN None
        ELSE Let(IF s < 0 THEN 0 ELSE s, LAMBDA from :
             Let(IF e >= length THEN length - 1 ELSE e, LAMBDA to :
                 Ok([k \in 1..(to - from + 1) |-> from + k - 1])))))

\* Selector::select_by_indices
select_by_indices(current, indices) ==
    Let(Take(current, 4), LAMBDA header :
        IF HeaderType(header) # ARRAY_CONTAINER_TAG \/ HeaderLen(header) = 0 THEN << >>
        ELSE LET RECURSIVE val_indices(_)
                 val_indices(rest) ==
                     IF rest = << >> THEN << >>
                     ELSE Let(IF Head(rest).t = "Index"
                              THEN convert_index(Head(rest).idx, HeaderLen(header))
                              ELSE convert_slice(Head(rest).start, Head(rest).end,
                                                 HeaderLen(header)), LAMBDA c :
                              (IF ~c.ok THEN << >>
                               ELSE IF Head(rest).t = "Index" THEN << c.v >> ELSE c.v)
                                \o val_indices(Tail(rest)))
             IN  Let(iterate_array(current, header), LAMBDA entries :
                 Let(val_indices(indices), LAMBDA at :
                     [k \in 1..Len(at) |-> pushed_item(entries[at[k] + 1].jentry,
                                                       entries[at[k] + 1].item)])))

\* Selector::select_path: the items pushed for one container, or a panic at
\* unreachable!()
select_path(current, path) ==
    IF path.t \in {"ColonField", "DotField", "ObjectField"}
    THEN Ok(select_by_name(current, path.name))
    ELSE IF path.t = "ArrayIndices" THEN Ok(select_by_indices(current, path.indices))
    ELSE IF path.t = "DotWildcard" THEN Ok(select_all_object_values(current))
    ELSE IF path.t = "BracketWildcard" THEN Ok(select_all_values(current))
    ELSE Err("panic")

RECURSIVE select_step(_, _)
\* the loop over the len items of the queue for one step that is not a
\* filter: a container is replaced by what select_path pushes, a scalar stays
\* under [*] only
select_step(items, path) ==
    IF items = << >> THEN Ok(<< >>)
    ELSE Try(IF Head(items).t = "Container" THEN select_path(Head(items).v, path)
             ELSE IF path.t = "BracketWildcard" THEN Ok(<< Head(items) >>)
             ELSE Ok(<< >>), LAMBDA pushed :
         Try(select_step(Tail(items), path), LAMBDA rest : Ok(pushed \o rest)))

\* Selector::compare_value
Selector_compare_value(op, lhs, rhs) ==
    Let(partial_cmp(lhs, rhs), LAMBDA order :
        IF ~order.ok THEN FALSE
        ELSE IF op = "Eq" THEN order.v = "Equal"
        ELSE IF op = "NotEq" THEN order.v # "Equal"
        ELSE IF op = "Lt" THEN order.v = "Less"
        ELSE IF op = "Lte" THEN order.v = "Equal" \/ order.v = "Less"
        ELSE IF op = "Gt" THEN order.v = "Greater"
        ELSE order.v = "Equal" \/ order.v = "Greater")

\* a compare that looks at the first value of each side only
Selector_compare_first_pair(op, lhs, rhs) ==
    Ok(/\ lhs.t = "Values" => lhs.vs # << >>
       /\ rhs.t = "Values" => rhs.vs # << >>
       /\ Selector_compare_value(op, IF lhs.t = "Value" THEN lhs.v ELSE lhs.vs[1],
                                    IF rhs.t = "Value" THEN rhs.v ELSE rhs.vs[1]))

\* Selector::compare: an ExprValue is one Value or a list of Values
Selector_compare(op, lhs, rhs) ==
    IF op \notin {"Eq", "NotEq", "Lt", "Lte", "Gt", "Gte"} THEN Err("panic")
    ELSE IF lhs.t = "Value" /\ rhs.t = "Value" THEN Ok(Selector_compare_value(op, lhs.v, rhs.v))
    ELSE IF lhs.t = "Values" /\ rhs.t = "Value"
    THEN Ok(\E i \in 1..Len(lhs.vs) : Selector_compare_value(op, lhs.vs[i], rhs.v))
    ELSE IF lhs.t = "Value" /\ rhs.t = "Values"
    THEN Ok(\E j \in 1..Len(rhs.vs) : Selector_compare_value(op, lhs.v, rhs.vs[j]))
    ELSE Ok(\E i \in 1..Len(lhs.vs) : \E j \in 1..Len(rhs.vs) :
                Selector_compare_value(op, lhs.vs[i], rhs.vs[j]))

\* Selector::filter_expr_val
filter_expr_val(root, current, expr) ==
    IF expr.t = "Value" THEN Ok([t |-> "Value", v |-> expr.v])
    ELSE IF expr.t # "Paths" THEN Err("InvalidJsonPath")
    ELSE IF expr.paths = << >> \/ Head(expr.paths).t \notin {"Root", "Current"}
    THEN Err("InvalidJsonPath")
    ELSE LET RECURSIVE walk(_, _)
             walk(paths, items) ==
                 IF paths = << >> THEN Ok(items)
                 ELSE IF Head(paths).t \in {"Root", "Current", "FilterExpr"}
                 THEN Err("InvalidJsonPath")
                 ELSE Try(select_step(items, Head(paths)), LAMBDA next :
                          walk(Tail(paths), next))
             value_of(data) ==
                 Let(decode_jentry(Slice(data, 4, 8)), LAMBDA jentry :
                     IF jentry.type_code = NULL_TAG THEN PVNull
                     ELSE IF jentry.type_code = TRUE_TAG THEN PVBoolean(TRUE)
                     ELSE IF jentry.type_code = FALSE_TAG THEN PVBoolean(FALSE)
                     ELSE IF jentry.type_code = NUMBER_TAG
                     THEN PVNumber(NumberDecode(Slice(data, 8, 8 + jentry.length)).v)
                     ELSE PVString(Slice(data, 8, 8 + jentry.length)))
         IN  Try(walk(Tail(expr.paths),
                      << [t |-> "Container",
                          v |-> IF Head(expr.paths).t = "Root" THEN root ELSE current] >>),
                 LAMBDA items :
                     Let(SelectSeq(items, LAMBDA item :
                             HeaderType(Take(item.v, 4)) = SCALAR_CONTAINER_TAG),
                         LAMBDA scalars :
                             Ok([t |-> "Values",
                                 vs |-> [k \in 1..Len(scalars) |-> value_of(scalars[k].v)]])))

RECURSIVE filter_expr(_, _, _)
\* Selector::filter_expr
filter_expr(root, current, expr) ==
    IF expr.t # "BinaryOp" THEN Err("InvalidJsonPath")
    ELSE IF expr.op = "Or" THEN
        Try(filter_expr(root, current, expr.left), LAMBDA lhs :
        Try(filter_expr(root, current, expr.right), LAMBDA rhs : Ok(lhs \/ rhs)))
    ELSE IF expr.op = "And" THEN
        Try(filter_expr(root, current, expr.left), LAMBDA lhs :
        Try(filter_expr(root, current, expr.right), LAMBDA rhs : Ok(lhs /\ rhs)))
    ELSE Try(filter_expr_val(root, current, expr.left), LAMBDA lhs :
         Try(filter_expr_val(root, current, expr.right), LAMBDA rhs :
             Selector_compare(expr.op, lhs, rhs)))

\* a filter step that puts the kept items back in the opposite order
select_filter_reversed(root, items, expr) ==
    Let(SelectSeq(items, LAMBDA item : filter_expr(root, item.v, expr) = Ok(TRUE)), LAMBDA kept :
        Ok([k \in 1..Len(kept) |-> kept[Len(kept) + 1 - k]]))

\* the filter step of select: the items for which filter_expr is true are
\* kept in tmp_items, then put back on the queue from the last to the first
select_filter(root, items, expr) ==
    LET RECURSIVE retain(_, _)
        retain(queue, tmp_items) ==
            IF queue = << >> THEN Ok(tmp_items)
            ELSE Try(filter_expr(root, Head(queue).v, expr), LAMBDA ok :
                     retain(Tail(queue),
                            IF ok THEN Append(tmp_items, Head(queue)) ELSE tmp_items))
        RECURSIVE put_back(_, _)
        put_back(tmp_items, queue) ==
            IF tmp_items = << >> THEN queue
            ELSE put_back(Take(tmp_items, Len(tmp_items) - 1),
                          << tmp_items[Len(tmp_items)] >> \o queue)
    IN  Try(retain(items, << >>), LAMBDA tmp_items : Ok(put_back(tmp_items, << >>)))

\* Selector::select: the bytes of the items left on the queue after the steps
select(json_path, value) ==
    LET RECURSIVE walk(_, _)
        walk(paths, items) ==
            IF paths = << >> THEN Ok([k \in 1..Len(items) |-> items[k].v])
            ELSE IF Head(paths).t = "Root" THEN walk(Tail(paths), items)
            ELSE IF Head(paths).t = "FilterExpr"
            THEN Try(select_filter(value, items, Head(paths).expr), LAMBDA kept :
                     walk(Tail(paths), kept))
            ELSE Try(select_step(items, Head(paths)), LAMBDA next : walk(Tail(paths), next))
    IN  walk(json_path, << [t |-> "Container", v |-> value] >>)

\* ---------------------------------------------------------------------
\* JSONPath parser (src/src/jsonpath/parser.rs).  A parser takes the text t
\* and a position p and gives NoMatch or the value and the position after
\* it, like a nom parser gives Err::Error or the rest and the value.
\* ---------------------------------------------------------------------
NoMatch == [ok |-> FALSE, err |-> "Error"]

IsAlphanumeric(c) == c \in 48..57 \/ c \in 65..90 \/ c \in 97..122

RECURSIVE AlphanumericEnd(_, _)
AlphanumericEnd(t, p) ==
    IF p <= Len(t) /\ IsAlphanumeric(t[p]) THEN AlphanumericEnd(t, p + 1) ELSE p

\* nom alphanumeric1: one or more ASCII letters or digits
alphanumeric1(t, p) ==
    IF AlphanumericEnd(t, p) = p THEN NoMatch
    ELSE At(SubSeq(t, p, AlphanumericEnd(t, p) - 1), AlphanumericEnd(t, p))

\* nom tag and char
tag(t, p, w) == IF Matches(t, p, w) THEN At(w, p + Len(w)) ELSE NoMatch

\* nom tag_no_case
tag_no_case(t, p, w) ==
    LET lower(c) == IF c \in 65..90 THEN c + 32 ELSE c
    IN  IF /\ p + Len(w) - 1 <= Len(t)
           /\ \A k \in 1..Len(w) : lower(t[p + k - 1]) = lower(w[k])
        THEN At(SubSeq(t, p, p + Len(w) - 1), p + Len(w)) ELSE NoMatch

\* nom i32, i64 (signed) and u32, u64: an optional sign when signed, then
\* one or more digits.  The texts of the model have at most 9 digits, which
\* fit every width.
integer(t, p, signed) ==
    LET q == IF signed /\ p <= Len(t) /\ t[p] \in {43, 45} THEN p + 1 ELSE p
        d == ParseDigits(t, q, 0)
    IN  IF d.pos = q \/ d.pos - q > 9 THEN NoMatch
        ELSE At(IF q > p /\ t[p] = 45 THEN 0 - d.v ELSE d.v, d.pos)

\* nom double, reached after u64 and i64 have failed: a sign and a dot with
\* digits behind it (.5, -.5), kept as its text; the model has no text with
\* an exponent, inf or nan
double(t, p) ==
    LET q == IF p <= Len(t) /\ t[p] \in {43, 45} THEN p + 1 ELSE p
        d == ParseDigits(t, q + 1, 0)
    IN  IF q <= Len(t) /\ t[q] = 46 /\ d.pos > q + 1
        THEN At(SubSeq(t, p, d.pos - 1), d.pos) ELSE NoMatch

RECURSIVE escaped(_, _, _)
\* nom escaped(alphanumeric1, '\\', one_of("\"n\\")) from start, now at p
escaped(t, start, p) ==
    IF p > Len(t) THEN At(SubSeq(t, start, Len(t)), Len(t) + 1)
    ELSE IF IsAlphanumeric(t[p]) THEN escaped(t, start, AlphanumericEnd(t, p))
    ELSE IF t[p] = 92 THEN
        IF p + 1 > Len(t) THEN NoMatch
        ELSE IF t[p + 1] \in {34, 110, 92} THEN escaped(t, start, p + 2)
        ELSE NoMatch
    ELSE IF p = start THEN NoMatch
    ELSE At(SubSeq(t, start, p - 1), p)

raw_string(t, p) == escaped(t, p, p)

\* delimited(char(open), raw_string, char(close))
quoted(t, p, q) ==
    Try(tag(t, p, << q >>), LAMBDA open :
        Let(raw_string(t, p + 1), LAMBDA s :
            IF ~s.ok THEN NoMatch
            ELSE IF tag(t, s.pos, << q >>).ok THEN At(s.v, s.pos + 1) ELSE NoMatch))

string(t, p) == IF quoted(t, p, 39).ok THEN quoted(t, p, 39) ELSE quoted(t, p, 34)

bracket_wildcard(t, p) ==
    IF /\ tag(t, p, << 91 >>).ok
       /\ tag(t, SkipWs(t, p + 1), << 42 >>).ok
       /\ tag(t, SkipWs(t, SkipWs(t, p + 1) + 1), << 93 >>).ok
    THEN At("unit", SkipWs(t, SkipWs(t, p + 1) + 1) + 1) ELSE NoMatch

colon_field(t, p) == IF tag(t, p, << 58 >>).ok THEN alphanumeric1(t, p + 1) ELSE NoMatch

dot_field(t, p) == IF tag(t, p, << 46 >>).ok THEN alphanumeric1(t, p + 1) ELSE NoMatch

descent_field(t, p) == IF tag(t, p, << 46, 46 >>).ok THEN alphanumeric1(t, p + 2) ELSE NoMatch

\* preceded(multispace0, char(']')) after a value that ends before p
closing(t, v, p) == IF tag(t, SkipWs(t, p), << 93 >>).ok THEN At(v, SkipWs(t, p) + 1) ELSE NoMatch

array_index(t, p) ==
    IF ~tag(t, p, << 91 >>).ok THEN NoMatch
    ELSE Let(integer(t, SkipWs(t, p + 1), TRUE), LAMBDA i :
             IF i.ok THEN closing(t, i.v, i.pos) ELSE NoMatch)

\* separated_list1(delimited(multispace0, char(','), multispace0), elem):
\* the list stops before a separator that no element follows
separated_list1(t, p, elem(_, _)) ==
    LET RECURSIVE more(_, _)
        more(acc, q) ==
            IF ~tag(t, SkipWs(t, q), << 44 >>).ok THEN At(acc, q)
            ELSE Let(elem(t, SkipWs(t, SkipWs(t, q) + 1)), LAMBDA e :
                     IF e.ok THEN more(Append(acc, e.v), e.pos) ELSE At(acc, q))
    IN  Let(elem(t, p), LAMBDA first : IF first.ok THEN more(<< first.v >>, first.pos) ELSE NoMatch)

array_indices(t, p) ==
    IF ~tag(t, p, << 91 >>).ok THEN NoMatch
    ELSE Let(separated_list1(t, SkipWs(t, p + 1), LAMBDA u, q : integer(u, q, TRUE)), LAMBDA l :
             IF l.ok THEN closing(t, l.v, l.pos) ELSE NoMatch)

object_field(t, p) ==
    IF ~tag(t, p, << 91 >>).ok THEN NoMatch
    ELSE Let(string(t, SkipWs(t, p + 1)), LAMBDA s :
             IF s.ok THEN closing(t, s.v, s.pos) ELSE NoMatch)

object_fields(t, p) ==
    IF ~tag(t, p, << 91 >>).ok THEN NoMatch
    ELSE Let(separated_list1(t, SkipWs(t, p + 1), string), LAMBDA l :
             IF l.ok THEN closing(t, l.v, l.pos) ELSE NoMatch)

\* opt(i32) between multispace0
opt_i32(t, p) ==
    Let(integer(t, SkipWs(t, p), TRUE), LAMBDA i :
        IF i.ok THEN At(Ok(i.v), SkipWs(t, i.pos)) ELSE At(None, SkipWs(t, p)))

array_slice(t, p) ==
    IF ~tag(t, p, << 91 >>).ok THEN NoMatch
    ELSE Let(opt_i32(t, p + 1), LAMBDA start :
         IF ~tag(t, start.pos, << 58 >>).ok THEN NoMatch
         ELSE Let(opt_i32(t, start.pos + 1), LAMBDA end :
              Let(IF tag(t, end.pos, << 58 >>).ok
                  THEN Let(integer(t, SkipWs(t, end.pos + 1), FALSE), LAMBDA step :
                           IF step.ok THEN At(Ok(step.v), SkipWs(t, step.pos))
                           ELSE At(None, end.pos))
                  ELSE At(None, end.pos), LAMBDA step :
                  IF tag(t, step.pos, << 93 >>).ok
                  THEN At([t |-> "ArraySlice", start |-> start.v, end |-> end.v,
                           step |-> step.v], step.pos + 1)
                  ELSE NoMatch)))

parser_op(t, p) ==
    IF tag(t, p, << 61, 61 >>).ok THEN At("Eq", p + 2)
    ELSE IF tag(t, p, << 33, 61 >>).ok THEN At("NotEq", p + 2)
    ELSE IF tag(t, p, << 60 >>).ok THEN At("Lt", p + 1)
    ELSE IF tag(t, p, << 60, 61 >>).ok THEN At("Lte", p + 2)
    ELSE IF tag(t, p, << 62 >>).ok THEN At("Gt", p + 1)
    ELSE IF tag(t, p, << 62, 61 >>).ok THEN At("Gte", p + 2)
    ELSE IF tag(t, p, << 61, 126 >>).ok THEN At("Match", p + 2)
    ELSE IF tag_no_case(t, p, << 105, 110 >>).ok THEN At("In", p + 2)
    ELSE IF tag_no_case(t, p, << 110, 105, 110 >>).ok THEN At("Nin", p + 3)
    ELSE IF tag_no_case(t, p, << 115, 117, 98, 115, 101, 116, 111, 102 >>).ok THEN At("Subsetof", p + 8)
    ELSE IF tag_no_case(t, p, << 97, 110, 121, 111, 102 >>).ok THEN At("Anyof", p + 5)
    ELSE IF tag_no_case(t, p, << 110, 111, 110, 101, 111, 102 >>).ok THEN At("Noneof", p + 6)
    ELSE IF tag_no_case(t, p, << 115, 105, 122, 101 >>).ok THEN At("Size", p + 4)
    ELSE IF tag_no_case(t, p, << 101, 109, 112, 116, 121 >>).ok THEN At("Empty", p + 5)
    ELSE NoMatch

path_value(t, p) ==
    IF tag(t, p, << 110, 117, 108, 108 >>).ok THEN At([t |-> "Null"], p + 4)
    ELSE IF tag(t, p, << 116, 114, 117, 101 >>).ok THEN At([t |-> "Boolean", b |-> TRUE], p + 4)
    ELSE IF tag(t, p, << 102, 97, 108, 115, 101 >>).ok THEN At([t |-> "Boolean", b |-> FALSE], p + 5)
    ELSE IF integer(t, p, FALSE).ok
    THEN At([t |-> "UInt64", n |-> integer(t, p, FALSE).v], integer(t, p, FALSE).pos)
    ELSE IF integer(t, p, TRUE).ok
    THEN At([t |-> "Int64", n |-> integer(t, p, TRUE).v], integer(t, p, TRUE).pos)
    ELSE IF double(t, p).ok THEN At([t |-> "Float64", text |-> double(t, p).v], double(t, p).pos)
    ELSE IF string(t, p).ok THEN At([t |-> "String", s |-> string(t, p).v], string(t, p).pos)
    ELSE NoMatch

RECURSIVE path(_, _)
RECURSIVE paths(_, _)
RECURSIVE sub_expr(_, _)
RECURSIVE parser_expr(_, _)
RECURSIVE parser_filter_expr(_, _)

path(t, p) ==
    IF tag(t, p, << 36 >>).ok THEN At([t |-> "Root"], p + 1)
    ELSE IF tag(t, p, << 64 >>).ok THEN At([t |-> "Current"], p + 1)
    ELSE IF tag(t, p, << 46, 42 >>).ok THEN At([t |-> "DotWildcard"], p + 2)
    ELSE IF tag(t, p, << 46, 46, 42 >>).ok THEN At([t |-> "DescentWildcard"], p + 3)
    ELSE IF bracket_wildcard(t, p).ok
    THEN At([t |-> "BracketWildcard"], bracket_wildcard(t, p).pos)
    ELSE IF colon_field(t, p).ok
    THEN At([t |-> "ColonField", name |-> colon_field(t, p).v], colon_field(t, p).pos)
    ELSE IF dot_field(t, p).ok
    THEN At([t |-> "DotField", name |-> dot_field(t, p).v], dot_field(t, p).pos)
    ELSE IF descent_field(t, p).ok
    THEN At([t |-> "DescentField", name |-> descent_field(t, p).v], descent_field(t, p).pos)
    ELSE IF array_index(t, p).ok
    THEN At([t |-> "ArrayIndex", i |-> array_index(t, p).v], array_index(t, p).pos)
    ELSE IF array_indices(t, p).ok
    THEN At([t |-> "ArrayIndices", indices |-> array_indices(t, p).v], array_indices(t, p).pos)
    ELSE IF object_field(t, p).ok
    THEN At([t |-> "ObjectField", name |-> object_field(t, p).v], object_field(t, p).pos)
    ELSE IF object_fields(t, p).ok
    THEN At([t |-> "ObjectFields", names |-> object_fields(t, p).v], object_fields(t, p).pos)
    ELSE IF array_slice(t, p).ok THEN array_slice(t, p)
    ELSE Let(parser_filter_expr(t, p), LAMBDA f :
             IF f.ok THEN At([t |-> "FilterExpr", expr |-> f.v], f.pos) ELSE NoMatch)

\* filter_expr of the parser: tag("[?("), expr between multispace0, tag(")]")
parser_filter_expr(t, p) ==
    IF ~tag(t, p, << 91, 63, 40 >>).ok THEN NoMatch
    ELSE Let(parser_expr(t, SkipWs(t, p + 3)), LAMBDA e :
             IF e.ok /\ tag(t, SkipWs(t, e.pos), << 41, 93 >>).ok
             THEN At(e.v, SkipWs(t, e.pos) + 2) ELSE NoMatch)

\* many1(path)
paths(t, p) ==
    Let(path(t, p), LAMBDA first :
        IF ~first.ok THEN NoMatch
        ELSE Let(paths(t, first.pos), LAMBDA rest :
                 IF rest.ok THEN At(<< first.v >> \o rest.v, rest.pos)
                 ELSE At(<< first.v >>, first.pos)))

sub_expr(t, p) ==
    Let(paths(t, p), LAMBDA ps :
        IF ps.ok THEN At([t |-> "Paths", paths |-> ps.v], ps.pos)
        ELSE Let(path_value(t, p), LAMBDA v :
                 IF v.ok THEN At([t |-> "Value", v |-> v.v], v.pos) ELSE NoMatch))

parser_expr(t, p) ==
    Let(sub_expr(t, SkipWs(t, p)), LAMBDA l :
    Let(IF l.ok THEN parser_op(t, SkipWs(t, l.pos)) ELSE NoMatch, LAMBDA o :
    Let(IF o.ok THEN sub_expr(t, SkipWs(t, o.pos)) ELSE NoMatch, LAMBDA r :
        IF r.ok
        THEN At([t |-> "BinaryOp", op |-> o.v, left |-> l.v, right |-> r.v], SkipWs(t, r.pos))
        ELSE sub_expr(t, p))))

\* json_path of the parser: many1(path) between multispace0
parser_json_path(t) ==
    Let(paths(t, SkipWs(t, 1)), LAMBDA ps :
        IF ps.ok THEN At(ps.v, SkipWs(t, ps.pos)) ELSE NoMatch)

\* parse_json_path that does not look at what is left of the input
parse_json_path_prefix(input) ==
    Let(parser_json_path(input), LAMBDA r : IF r.ok THEN Ok(r.v) ELSE Err("InvalidJsonb"))

parse_json_path(input) ==
    Let(parser_json_path(input), LAMBDA r :
        IF ~r.ok THEN Err("InvalidJsonb")
        ELSE IF r.pos <= Len(input) THEN Err("InvalidJsonPath")
        ELSE Ok(r.v))

\* ---------------------------------------------------------------------
\* State
\* ---------------------------------------------------------------------
VARIABLES
    call,     \* the call that was made last: fn and its scalar arguments
    left,     \* the first byte-slice argument (self)
    right,    \* the second byte-slice argument (other, new_val)
    third,    \* a third value, for the relations over three values
    items,    \* the (key, value) items handed to a builder
    buf,      \* the caller's output buffer
    pre,      \* the bytes buf held before the call
    ret       \* what the call returned

vars == << call, left, right, third, items, buf, pre, ret >>

NoCall == [fn |-> "none"]
NoRet == [ok |-> TRUE, v |-> "none"]

\* ---------------------------------------------------------------------
\* The values of the model
\* ---------------------------------------------------------------------
Ka == << 97 >>
Kb == << 98 >>
Kc == << 99 >>

Num1 == VNum("UInt64", 1)

Corpus ==
    << VNull,
       VArr(<< VStr(Ka), VStr(Kb) >>),
       VArr(<< VStr(<< 97, 0 >>) >>),
       VObj(<< <<Ka, Num1>> >>),
       VStr(Ka),
       Num1,
       VBool(TRUE),
       VBool(FALSE),
       VArr(<< >>),
       VObj(<< >>),
       VNum("Int64", 0 - 1),
       VNum("Float64", 3),
       VArr(<< Num1 >>),
       VArr(<< VArr(<< Num1 >>) >>),
       VObj(<< <<Ka, VNull>>, <<Kb, VArr(<< VNull >>)>> >>),
       VStr(<< 97, 0 >>),
       VNum("Int64", 1),
       VArr(<< Num1, VArr(<< Num1 >>) >>),
       VObj(<< <<Ka, Num1>>, <<Kb, VStr(Ka)>> >>),
       VObj(<< <<Kb, VObj(<< <<Ka, Num1>> >>)>> >>),
       VArr(<< VNull, VObj(<< <<Kc, VNull>> >>) >>),
       VStr(Kb) >>

\* how many values of Corpus the relations over three values range over
NVals == 12

Values == { Encode(Corpus[i]) : i \in 1..Min(NVals, Len(Corpus)) }

\* the tree a value of the model encodes
TreeOf(b) == Corpus[CHOOSE i \in 1..Len(Corpus) : Encode(Corpus[i]) = b]

\* ---------------------------------------------------------------------
\* compare and convert_to_comparable on encoded values
\* ---------------------------------------------------------------------
InitCmp ==
    /\ call = NoCall
    /\ left \in Values
    /\ right \in Values
    /\ third \in Values
    /\ items = << >>
    /\ buf = << >>
    /\ pre = << >>
    /\ ret = NoRet

Compare ==
    /\ call.fn = "none"
    /\ call' = [fn |-> "compare"]
    /\ ret' = compare(left, right)
    /\ UNCHANGED << left, right, third, items, buf, pre >>

ConvertToComparable ==
    /\ call.fn = "none"
    /\ call' = [fn |-> "convert_to_comparable"]
    /\ pre' = buf
    /\ buf' = buf \o convert_to_comparable(left)
    /\ ret' = Ok("unit")
    /\ UNCHANGED << left, right, third, items >>

NextCmp == Compare \/ ConvertToComparable

SpecCmp == InitCmp /\ [][NextCmp]_vars

\* C1: compare(a, b) is the lexicographic byte comparison of
\* convert_to_comparable(a) and convert_to_comparable(b), for every pair of
\* well-formed values.
C1_CompareIsLexOfComparable ==
    call.fn = "compare" =>
        /\ ret.ok
        /\ ret.v = BytesCmp(convert_to_comparable(left), convert_to_comparable(right))

\* C2: compare is antisymmetric (compare(a, b) is the reverse of
\* compare(b, a)) and transitive (a <= b and b <= c imply a <= c) on
\* well-formed values.
C2_CompareAntisymmetricTransitive ==
    call.fn = "compare" =>
        /\ ret.ok
        /\ compare(right, left) = Ok(Reverse(ret.v))
        /\ (ret.v # "Greater" /\ compare(right, third).v # "Greater")
               => compare(left, third).v # "Greater"

\* three different values in ascending order have been compared
C2_Witness ==
    /\ call.fn = "compare"
    /\ ret = Ok("Less")
    /\ compare(right, third) = Ok("Less")
    /\ HeaderType(left) # HeaderType(right)

\* ---------------------------------------------------------------------
\* The entry points that fall back to JSON text
\* ---------------------------------------------------------------------
\* JSON texts: 1, " 1", null, "a", [1,null], {"a":null}, true, " [1]"
Texts ==
    { << 49 >>, << 32, 49 >>, << 110, 117, 108, 108 >>, << 34, 97, 34 >>,
      << 91, 49, 44, 110, 117, 108, 108, 93 >>,
      << 123, 34, 97, 34, 58, 110, 117, 108, 108, 125 >>,
      << 116, 114, 117, 101 >>, << 32, 91, 49, 93 >> }

\* byte strings that are neither JSONB nor JSON: x, [1, nul
InvalidTexts == { << 120 >>, << 91, 49 >>, << 110, 117, 108 >> }

\* the keypaths of the model
KeyPaths ==
    { << >>, << KIndex(0) >>, << KIndex(0 - 1) >>, << KName(Ka) >>,
      << KName(Kb), KIndex(0) >>, << KIndex(1), KName(Kc) >>, << KIndex(5) >> }

InitText ==
    /\ call = NoCall
    /\ left \in Values \cup Texts \cup InvalidTexts
    /\ right \in Values \cup Texts \cup InvalidTexts
    /\ third = << >>
    /\ items = << >>
    /\ buf = << >>
    /\ pre = << >>
    /\ ret = NoRet

\* a call that appends r.v to buf when r is Ok and returns its error otherwise
Returns(r) ==
    /\ pre' = buf
    /\ buf' = IF r.ok THEN buf \o r.v ELSE buf
    /\ ret' = IF r.ok THEN Ok("unit") ELSE r

ConcatFn ==
    /\ call.fn = "none"
    /\ call' = [fn |-> "concat"]
    /\ Returns(concat(left, right))
    /\ UNCHANGED << left, right, third, items >>

StripNullsFn ==
    /\ call.fn = "none"
    /\ call' = [fn |-> "strip_nulls"]
    /\ Returns(strip_nulls(left))
    /\ UNCHANGED << left, right, third, items >>

DeleteByKeypathFn ==
    /\ call.fn = "none"
    /\ \E kp \in KeyPaths :
          /\ call' = [fn |-> "delete_by_keypath", keypath |-> kp]
          /\ Returns(delete_by_keypath(left, kp))
    /\ UNCHANGED << left, right, third, items >>

NextText ==
    \/ Compare
    \/ ConvertToComparable
    \/ ConcatFn
    \/ StripNullsFn
    \/ DeleteByKeypathFn

SpecText == InitText /\ [][NextText]_vars

\* the rank of the table of compare, by the kind of the value
RankOfTree(v) ==
    CASE v.t = "null" -> 7
      [] v.t = "arr" -> 6
      [] v.t = "obj" -> 5
      [] v.t = "str" -> 4
      [] v.t = "num" -> 3
      [] v.t = "bool" -> IF v.b THEN 2 ELSE 1

\* the category of an input: that of the value it encodes or spells, 0 for
\* an input that is not taken as JSONB and does not parse
InputRank(x) ==
    IF DecodeValue(x).ok THEN RankOfTree(DecodeValue(x).v)
    ELSE IF parse_value(x).ok THEN RankOfTree(parse_value(x).v)
    ELSE 0

\* a well-formed container, or an input that is_jsonb does not take as JSONB
Categorised(x) == DecodeValue(x).ok \/ ~is_jsonb(x)

Canon(x) == IF parse_value(x).ok THEN Encode(parse_value(x).v) ELSE x

\* what a call that writes to buf did, as a result that carries the bytes
Outcome == IF ret.ok THEN Ok(SubSeq(buf, Len(pre) + 1, Len(buf))) ELSE ret

\* C9: on an input that a strict JSON parser accepts, compare,
\* convert_to_comparable, concat, strip_nulls and delete_by_keypath give the
\* result they give on the JSONB encoding of that JSON value.
C9_TextFallbackTransparent ==
    /\ call.fn = "compare" => ret = compare(Canon(left), Canon(right))
    /\ call.fn = "convert_to_comparable" =>
           Outcome = Ok(convert_to_comparable(Canon(left)))
    /\ call.fn = "concat" => Outcome = concat(Canon(left), Canon(right))
    /\ call.fn = "strip_nulls" => Outcome = strip_nulls(Canon(left))
    /\ call.fn = "delete_by_keypath" =>
           Outcome = delete_by_keypath(Canon(left), call.keypath)

\* ---------------------------------------------------------------------
\* build_array and build_object on sequences of items
\* ---------------------------------------------------------------------
MaxItems == 2

\* values that are not JSONB: too short for a header, and a header of no
\* container type
Malformed == { << 49 >>, << 96, 0, 0, 0 >> }

BuildValues ==
    { Encode(VNull), Encode(Num1), Encode(VArr(<< Num1 >>)), Encode(VObj(<< << Ka, VNull >> >>)) }

BuildItems == { << k, v >> : k \in {Ka, Kb}, v \in BuildValues \cup Malformed }

\* what the caller's buffer may hold before the call
Prefixes == { << >>, << 1, 2 >> }

InitBuild ==
    /\ call = NoCall
    /\ left = << >>
    /\ right = << >>
    /\ third = << >>
    /\ items \in UNION { [1..n -> BuildItems] : n \in 0..MaxItems }
    /\ buf \in Prefixes
    /\ pre = buf
    /\ ret = NoRet

\* a call that leaves r.buf in the buffer and returns r.ret
Leaves(r) ==
    /\ pre' = buf
    /\ buf' = r.buf
    /\ ret' = r.ret

\* build_array on the values of the items
BuildArray ==
    /\ call.fn = "none"
    /\ call' = [fn |-> "build_array"]
    /\ Leaves(build_array([i \in 1..Len(items) |-> items[i][2]], buf))
    /\ UNCHANGED << left, right, third, items >>

BuildObject ==
    /\ call.fn = "none"
    /\ call' = [fn |-> "build_object"]
    /\ Leaves(build_object(items, buf))
    /\ UNCHANGED << left, right, third, items >>

\* the four reads below take the array build_array has just written: the
\* bytes of buf after the caller's prefix
ArrayLength ==
    /\ call.fn = "build_array" /\ ret.ok
    /\ call' = [fn |-> "array_length"]
    /\ ret' = array_length(SubSeq(buf, Len(pre) + 1, Len(buf)))
    /\ UNCHANGED << left, right, third, items, buf, pre >>

TypeOf ==
    /\ call.fn = "build_array" /\ ret.ok
    /\ call' = [fn |-> "type_of"]
    /\ ret' = type_of(SubSeq(buf, Len(pre) + 1, Len(buf)))
    /\ UNCHANGED << left, right, third, items, buf, pre >>

GetByIndex ==
    /\ call.fn = "build_array" /\ ret.ok
    /\ \E index \in 0..(MaxItems + 1) :
          /\ call' = [fn |-> "get_by_index", index |-> index]
          /\ ret' = get_by_index(SubSeq(buf, Len(pre) + 1, Len(buf)), index)
    /\ UNCHANGED << left, right, third, items, buf, pre >>

ArrayValues ==
    /\ call.fn = "build_array" /\ ret.ok
    /\ call' = [fn |-> "array_values"]
    /\ ret' = array_values(SubSeq(buf, Len(pre) + 1, Len(buf)))
    /\ UNCHANGED << left, right, third, items, buf, pre >>

NextBuild ==
    \/ BuildArray
    \/ BuildObject
    \/ ArrayLength
    \/ TypeOf
    \/ GetByIndex
    \/ ArrayValues

SpecBuild == InitBuild /\ [][NextBuild]_vars

\* C4: when a producing operation returns an error, the caller's buffer
\* holds exactly the bytes it held before the call.
C4_NoPartialWrites == ~ret.ok => buf = pre

\* the bytes the call added to the buffer
Emitted == SubSeq(buf, Len(pre) + 1, Len(buf))

\* the strings of decoded key slots
KeysOf(ks) == [j \in 1..Len(ks.v.items) |-> ks.v.items[j].s]

\* the keys of an object container of n members, in stored order
StoredKeysOf(b, n) == KeysOf(DecodeItems(b, 1, 0, n, 4 + 8 * n, << >>))

\* the keys of an object container, in stored order
StoredKeys(b) == StoredKeysOf(b, HeaderLen(Take(b, 4)))

\* strictly ascending in byte order
StrictlyAscending(ks) == \A j \in 1..(Len(ks) - 1) : BytesCmp(ks[j], ks[j + 1]) = "Less"

RECURSIVE LastPushed(_, _)
\* the map of the items, a later item replacing an earlier one of its key
LastPushed(its, m) ==
    IF its = << >> THEN m
    ELSE LastPushed(Tail(its), MapInsert(m, Head(its)[1], DecodeValue(Head(its)[2]).v))

\* C6: for items with valid JSONB values, the object build_object emits
\* stores its keys strictly ascending and unique, the last pushed value of
\* a key kept, whatever the order of the items.
C6_BuildObjectSortedUnique ==
    (/\ call.fn = "build_object"
     /\ \A j \in 1..Len(items) : items[j][2] \in BuildValues)
        => /\ ret.ok
           /\ StrictlyAscending(StoredKeys(Emitted))
           /\ DecodeValue(Emitted) = Ok(VObj(LastPushed(items, << >>)))

\* C5: when concat, strip_nulls or delete_by_keypath returns Ok, it has
\* appended exactly one well-formed JSONB value to the buffer: the appended
\* bytes decode, slot by slot and to their last byte, as one container.
C5_MutatorAppendsOneValue ==
    (call.fn \in {"concat", "strip_nulls", "delete_by_keypath"} /\ ret.ok)
        => DecodeValue(Emitted).ok

\* ---------------------------------------------------------------------
\* Sequences of object_insert calls, each on the result of the last one
\* ---------------------------------------------------------------------
MaxInserts == 2

InsertObjects ==
    { Encode(VObj(<< >>)),
      Encode(VObj(<< << Ka, Num1 >> >>)),
      Encode(VObj(<< << Ka, Num1 >>, << Kc, VStr(Ka) >> >>)),
      Encode(VObj(<< << Kb, VObj(<< << Ka, Num1 >> >>) >> >>)) }

NonObjects == { Encode(VArr(<< Num1 >>)), Encode(VNull) }

InsertKeys == { Ka, Kb, Kc }

\* new values: a scalar, a container, and bytes whose header is of no type
InsertValues == { Encode(VNull), Encode(VArr(<< Num1 >>)), << 96, 0, 0, 0 >> }

\* third keeps the object the sequence started from, items the (key, value)
\* of the calls that succeeded
InitInsert ==
    /\ call = NoCall
    /\ left \in InsertObjects \cup NonObjects
    /\ right = << >>
    /\ third = left
    /\ items = << >>
    /\ buf = << >>
    /\ pre = << >>
    /\ ret = NoRet

\* the object the next call is made on: what the last call emitted, or its
\* input when it failed
Current == IF call.fn = "object_insert" /\ ret.ok THEN Emitted ELSE left

ObjectInsert ==
    /\ Len(items) < MaxInserts
    /\ \E new_key \in InsertKeys, new_val \in InsertValues, update_flag \in BOOLEAN :
          /\ call' = [fn |-> "object_insert", new_key |-> new_key, update_flag |-> update_flag]
          /\ left' = Current
          /\ right' = new_val
          /\ Returns(object_insert(Current, new_key, new_val, update_flag))
          /\ items' = IF ret'.ok THEN Append(items, << new_key, new_val >>) ELSE items
    /\ UNCHANGED third

SpecInsert == InitInsert /\ [][ObjectInsert]_vars

\* the set of the elements of a sequence
Range(seq) == { seq[j] : j \in 1..Len(seq) }

\* C7: starting from a well-formed object, after any sequence of successful
\* object_insert calls the keys of the resulting object are strictly
\* ascending and unique, and they are the original keys plus the inserted
\* keys.
C7_InsertKeepsKeysSorted ==
    (call.fn = "object_insert" /\ ret.ok)
        => /\ StrictlyAscending(StoredKeys(Emitted))
           /\ Range(StoredKeys(Emitted))
                = Range(StoredKeys(third)) \cup { items[j][1] : j \in 1..Len(items) }

\* two inserts have succeeded, the second one between two keys
C7_Witness ==
    /\ call.fn = "object_insert" /\ ret.ok
    /\ Len(items) = 2
    /\ call.new_key = Kb
    /\ StoredKeys(Emitted) = << Ka, Kb, Kc >>

\* the members of the object a call was made on, empty for a non-object
MembersOf(b) == IF DecodeValue(b).v.t = "obj" THEN DecodeValue(b).v.m ELSE << >>

\* C8: object_insert with a key that the object has fails with
\* ObjectDuplicateKey when update_flag is false; when it is true the call
\* succeeds, the member count is unchanged, the key maps to the new value
\* and every other member is unchanged.  On a non-object it fails with
\* InvalidObject.
C8_DuplicateKeyAndNonObject ==
    call.fn = "object_insert" =>
        /\ DecodeValue(left).v.t # "obj" => ret = Err("InvalidObject")
        /\ (MapIndex(MembersOf(left), call.new_key) # 0 /\ ~call.update_flag)
               => ret = Err("ObjectDuplicateKey")
        /\ (MapIndex(MembersOf(left), call.new_key) # 0 /\ call.update_flag
                /\ DecodeValue(right).ok)
               => /\ ret.ok
                  /\ DecodeValue(Emitted) =
                       Ok(VObj([MembersOf(left) EXCEPT
                                  ![MapIndex(MembersOf(left), call.new_key)] =
                                      << call.new_key, DecodeValue(right).v >>]))

\* a call with update_flag has given a key of the object another value
C8_Witness ==
    /\ call.fn = "object_insert" /\ call.update_flag /\ ret.ok
    /\ MapIndex(MembersOf(left), call.new_key) # 0
    /\ Len(MembersOf(left)) = 2
    /\ DecodeValue(Emitted) # DecodeValue(left)

\* ---------------------------------------------------------------------
\* contains on triples of values
\* ---------------------------------------------------------------------
\* how many values of ContainsCorpus are drawn
NContains == 16

ContainsCorpus ==
    << Num1, VStr(Ka),
       VArr(<< Num1 >>), VArr(<< Num1, VStr(Ka) >>),
       VArr(<< VStr(Ka), Num1, Num1 >>),
       VArr(<< VArr(<< Num1 >>) >>), VArr(<< VArr(<< Num1, VStr(Ka) >>), Num1 >>),
       VObj(<< << Ka, Num1 >> >>), VObj(<< << Ka, Num1 >>, << Kb, VArr(<< Num1 >>) >> >>),
       VObj(<< << Ka, Num1 >>, << Kb, VArr(<< Num1, VStr(Ka) >>) >> >>),
       VObj(<< << Kb, VObj(<< << Ka, Num1 >> >>) >> >>),
       VArr(<< >>), VObj(<< >>), VArr(<< VArr(<< >>), VObj(<< << Ka, Num1 >> >>) >>),
       VNull, VArr(<< VObj(<< >>) >>) >>

InitContains ==
    /\ call = NoCall
    /\ left \in { Encode(ContainsCorpus[i]) : i \in 1..Min(NContains, Len(ContainsCorpus)) }
    /\ right \in { Encode(ContainsCorpus[i]) : i \in 1..Min(NContains, Len(ContainsCorpus)) }
    /\ third \in { Encode(ContainsCorpus[i]) : i \in 1..Min(NContains, Len(ContainsCorpus)) }
    /\ items = << >>
    /\ buf = << >>
    /\ pre = << >>
    /\ ret = NoRet

Contains ==
    /\ call.fn = "none"
    /\ call' = [fn |-> "contains"]
    /\ ret' = contains(left, right)
    /\ UNCHANGED << left, right, third, items, buf, pre >>

SpecContains == InitContains /\ [][Contains]_vars

\* C10: contains is reflexive and transitive on well-formed values:
\* contains(a, a) is true, and contains(a, b) and contains(b, c) imply
\* contains(a, c), an array on the left with a scalar on the right included.
C10_ContainsReflexiveTransitive ==
    call.fn = "contains" =>
        /\ contains(left, left) = Ok(TRUE)
        /\ (ret = Ok(TRUE) /\ contains(right, third) = Ok(TRUE))
               => contains(left, third) = Ok(TRUE)

\* an array contains an array that contains a scalar
C10_Witness ==
    /\ call.fn = "contains" /\ ret = Ok(TRUE)
    /\ left # right /\ right # third
    /\ HeaderType(Take(right, 4)) = ARRAY_CONTAINER_TAG
    /\ HeaderType(Take(third, 4)) = SCALAR_CONTAINER_TAG
    /\ contains(right, third) = Ok(TRUE)

\* a scalar of the tree: neither an array nor an object
IsScalar(v) == v.t \notin {"arr", "obj"}

\* an element of the array tree l equals the scalar x: same type code, same
\* payload bytes
HasElement(l, x) ==
    \E i \in 1..Len(l.e) :
        /\ IsScalar(l.e[i])
        /\ TypeCodeOf(l.e[i]) = TypeCodeOf(x)
        /\ Payload(l.e[i]) = Payload(x)

\* a nested container of the array tree l contains the container x
HasNested(l, x) ==
    \E i \in 1..Len(l.e) :
        /\ ~IsScalar(l.e[i])
        /\ contains(Encode(l.e[i]), Encode(x)) = Ok(TRUE)

\* C11: for arrays left and right, contains(left, right) is true exactly
\* when every scalar element of right equals some element of left and every
\* nested container of right is contained by some nested container of left;
\* for an array left and a scalar right, exactly when right equals some
\* element of left.
C11_ArrayContainment ==
    (call.fn = "contains" /\ DecodeValue(left).v.t = "arr" /\ DecodeValue(right).v.t # "obj")
        => IF DecodeValue(right).v.t = "arr"
           THEN ret = Ok(\A j \in 1..Len(DecodeValue(right).v.e) :
                            IF IsScalar(DecodeValue(right).v.e[j])
                            THEN HasElement(DecodeValue(left).v, DecodeValue(right).v.e[j])
                            ELSE HasNested(DecodeValue(left).v, DecodeValue(right).v.e[j]))
           ELSE ret = Ok(HasElement(DecodeValue(left).v, DecodeValue(right).v))

\* an array contains an array that has its elements in another order and
\* one of them twice
C11_Witness ==
    /\ call.fn = "contains" /\ ret = Ok(TRUE)
    /\ left = Encode(VArr(<< Num1, VStr(Ka) >>))
    /\ right = Encode(VArr(<< VStr(Ka), Num1, Num1 >>))

\* ---------------------------------------------------------------------
\* The methods of RawJsonb on pairs of well-formed values
\* ---------------------------------------------------------------------
\* how many values of RawCorpus are drawn
NRaw == 15

KFoo == << 70, 111, 111 >>
Kfoo == << 102, 111, 111 >>
Kd == << 100 >>
Num2 == VNum("UInt64", 2)
Num3 == VNum("UInt64", 3)

RawCorpus ==
    << VArr(<< Num1, Num1, Num2, Num3 >>), VArr(<< Num1, Num3 >>),
       VArr(<< Num1, VArr(<< Num1, Num2 >>) >>),
       VArr(<< VNull, VObj(<< << Kc, VNull >>, << Kd, Num1 >> >>) >>),
       VArr(<< >>),
       VObj(<< << Ka, VNull >>,
               << Kb, VArr(<< VNull, VObj(<< << Kc, VNull >>, << Kd, Num1 >> >>) >>) >> >>),
       VObj(<< << Ka, Num1 >>, << Kb, VStr(Ka) >> >>),
       VObj(<< << KFoo, Num1 >>, << Kfoo, Num2 >> >>),
       VObj(<< << KFoo, Num1 >> >>),
       VObj(<< << Kb, VObj(<< << Ka, Num1 >>, << Kc, VArr(<< Num2 >>) >> >>) >> >>),
       VObj(<< >>),
       VNull, Num1, VStr(Ka),
       VObj(<< << Kb, Num2 >>, << Kc, VNull >> >>),
       VArr(<< VStr(Ka) >>) >>

RawValues == { Encode(RawCorpus[i]) : i \in 1..Min(NRaw, Len(RawCorpus)) }

InitRaw ==
    /\ call = NoCall
    /\ left \in RawValues
    /\ right \in RawValues
    /\ third = << >>
    /\ items = << >>
    /\ buf \in Prefixes
    /\ pre = buf
    /\ ret = NoRet

ArrayIntersection ==
    /\ call.fn = "none"
    /\ call' = [fn |-> "array_intersection"]
    /\ Returns(array_intersection(left, right))
    /\ UNCHANGED << left, right, third, items >>

ArrayExcept ==
    /\ call.fn = "none"
    /\ call' = [fn |-> "array_except"]
    /\ Returns(array_except(left, right))
    /\ UNCHANGED << left, right, third, items >>

ArrayOverlap ==
    /\ call.fn = "none"
    /\ call' = [fn |-> "array_overlap"]
    /\ Leaves([buf |-> buf, ret |-> array_overlap(left, right)])
    /\ UNCHANGED << left, right, third, items >>

\* the indexes and positions tried: both ends of i32, and values around the
\* lengths of the arrays
Indexes == { I32_MIN, 0 - 5, 0 - 4, 0 - 2, 0 - 1, 0, 1, 3, 4, 2147483647 }

DeleteByIndex ==
    /\ call.fn = "none"
    /\ \E index \in Indexes, overflow_checks \in BOOLEAN :
          /\ call' = [fn |-> "delete_by_index", index |-> index]
          /\ Returns(delete_by_index(left, index, overflow_checks))
    /\ UNCHANGED << left, right, third, items >>

\* the step sequences tried: empty, one step of each kind, nested targets,
\* absent targets of every kind and the least index
RawKeyPaths ==
    { << >>, << KIndex(0) >>, << KIndex(0 - 1) >>, << KIndex(5) >>, << KIndex(I32_MIN) >>,
      << KName(Ka) >>, << KName(Kb) >>, << KName(Kb), KIndex(1), KName(Kc) >>,
      << KName(Kb), KName(Kc), KIndex(0) >>, << KName(Kb), KName(Ka) >>,
      << KIndex(1), KIndex(0) >>, << KIndex(1), KName(Kd) >>, << KIndex(0), KIndex(0) >>,
      << KName(Kb), KIndex(0) >>, << KName(Kb), KIndex(1), KIndex(0) >>,
      << KIndex(4) >>, << KIndex(0 - 4) >>, << KIndex(0 - 5) >>, << KIndex(2147483647) >>,
      << KIndex(1), KIndex(0 - 1) >>, << KName(Kb), KIndex(1), KName(Kd) >> }

DeleteByKeypath ==
    /\ call.fn = "none"
    /\ \E keypath \in RawKeyPaths, overflow_checks \in BOOLEAN :
          /\ call' = [fn |-> "RawJsonb::delete_by_keypath", keypath |-> keypath,
                      overflow_checks |-> overflow_checks]
          /\ Returns(RawJsonb_delete_by_keypath(left, keypath, overflow_checks))
    /\ UNCHANGED << left, right, third, items >>

\* the names looked up: a, foo, Foo, FOO and b
Names == { Ka, Kfoo, KFoo, << 70, 79, 79 >>, Kb }

GetByName ==
    /\ call.fn = "none"
    /\ \E name \in Names, ignore_case \in BOOLEAN :
          /\ call' = [fn |-> "get_by_name", name |-> name, ignore_case |-> ignore_case]
          /\ Leaves([buf |-> buf, ret |-> get_by_name(left, name, ignore_case)])
    /\ UNCHANGED << left, right, third, items >>

GetByKeypath ==
    /\ call.fn = "none"
    /\ \E keypaths \in RawKeyPaths :
          /\ call' = [fn |-> "get_by_keypath", keypaths |-> keypaths]
          /\ Leaves([buf |-> buf, ret |-> get_by_keypath(left, keypaths)])
    /\ UNCHANGED << left, right, third, items >>

Concat ==
    /\ call.fn = "none"
    /\ call' = [fn |-> "RawJsonb::concat"]
    /\ Returns(RawJsonb_concat(left, right))
    /\ UNCHANGED << left, right, third, items >>

StripNulls ==
    /\ call.fn = "none"
    /\ call' = [fn |-> "RawJsonb::strip_nulls"]
    /\ Returns(RawJsonb_strip_nulls(left))
    /\ UNCHANGED << left, right, third, items >>

ArrayInsert ==
    /\ call.fn = "none"
    /\ \E pos \in Indexes, overflow_checks \in BOOLEAN :
          /\ call' = [fn |-> "array_insert", pos |-> pos]
          /\ Returns(array_insert(left, pos, right, overflow_checks))
    /\ UNCHANGED << left, right, third, items >>

NextRaw ==
    \/ ArrayIntersection
    \/ ArrayExcept
    \/ ArrayOverlap
    \/ DeleteByIndex
    \/ DeleteByKeypath
    \/ GetByName
    \/ GetByKeypath
    \/ Concat
    \/ StripNulls
    \/ ArrayInsert

SpecRaw == InitRaw /\ [][NextRaw]_vars

\* how many times x occurs in seq
Count(seq, x) == Cardinality({ j \in 1..Len(seq) : seq[j] = x })

RECURSIVE IsSubseq(_, _)
\* sub is seq with some elements left out
IsSubseq(sub, seq) ==
    IF sub = << >> THEN TRUE
    ELSE IF seq = << >> THEN FALSE
    ELSE IF Head(sub) = Head(seq) THEN IsSubseq(Tail(sub), Tail(seq))
    ELSE IsSubseq(sub, Tail(seq))

\* the elements of the array an input or the output encodes
Elems(b) == DecodeValue(b).v.e

\* C12: for arrays a and b and every element x, x occurs
\* min(count_a(x), count_b(x)) times in array_intersection(a, b) and
\* max(0, count_a(x) - count_b(x)) times in array_except(a, b); the kept
\* elements are in the order they have in a, and
\* array_except([1,1,2,3], [1,3]) = [1,2].
C12_MultisetAware ==
    (/\ call.fn \in {"array_intersection", "array_except"}
     /\ DecodeValue(left).v.t = "arr" /\ DecodeValue(right).v.t = "arr")
        => /\ ret.ok
           /\ DecodeValue(Emitted).ok /\ DecodeValue(Emitted).v.t = "arr"
           /\ IsSubseq(Elems(Emitted), Elems(left))
           /\ \A x \in Range(Elems(left)) \cup Range(Elems(right)) \cup Range(Elems(Emitted)) :
                 Count(Elems(Emitted), x) =
                    IF call.fn = "array_intersection"
                    THEN Min(Count(Elems(left), x), Count(Elems(right), x))
                    ELSE IF Count(Elems(left), x) > Count(Elems(right), x)
                         THEN Count(Elems(left), x) - Count(Elems(right), x) ELSE 0
           /\ (/\ call.fn = "array_except"
               /\ Elems(left) = << Num1, Num1, Num2, Num3 >>
               /\ Elems(right) = << Num1, Num3 >>)
                  => Elems(Emitted) = << Num1, Num2 >>

\* array_except([1,1,2,3], [1,3]) has returned
C12_Witness ==
    /\ call.fn = "array_except" /\ ret.ok
    /\ left = Encode(VArr(<< Num1, Num1, Num2, Num3 >>))
    /\ right = Encode(VArr(<< Num1, Num3 >>))
    /\ Emitted = Encode(VArr(<< Num1, Num2 >>))

\* C13: delete_by_index on an array of length n, for every 32-bit index i,
\* the minimum included: element i is removed if 0 <= i < n, element n + i
\* if -n <= i < 0, and otherwise the call returns Ok and writes the input
\* unchanged; the other elements keep their order.  On an object or a
\* scalar it fails with InvalidJsonType.
C13_DeleteByIndex ==
    call.fn = "delete_by_index" =>
        IF DecodeValue(left).v.t # "arr" THEN ret = Err("InvalidJsonType")
        ELSE IF 0 <= call.index /\ call.index < Len(Elems(left))
        THEN ret.ok /\ DecodeValue(Emitted) = Ok(VArr(RemoveAt(Elems(left), call.index + 1)))
        ELSE IF call.index < 0 /\ call.index > I32_MIN /\ 0 - call.index <= Len(Elems(left))
        THEN ret.ok /\ DecodeValue(Emitted) =
                 Ok(VArr(RemoveAt(Elems(left), Len(Elems(left)) + call.index + 1)))
        ELSE ret.ok /\ Emitted = left

RECURSIVE Removed(_, _)
\* the value v without the value the steps address; v itself when no value
\* is addressed
Removed(v, steps) ==
    IF steps = << >> THEN v
    ELSE IF v.t = "arr" /\ Head(steps).t = "Index" THEN
        LET n == Len(v.e)
            k == IF Head(steps).i >= 0 THEN Head(steps).i ELSE n + Head(steps).i
        IN  IF k < 0 \/ k >= n THEN v
            ELSE IF Len(steps) = 1 THEN VArr(RemoveAt(v.e, k + 1))
            ELSE VArr([v.e EXCEPT ![k + 1] = Removed(v.e[k + 1], Tail(steps))])
    ELSE IF v.t = "obj" /\ Head(steps).t = "Name" THEN
        LET at == { j \in 1..Len(v.m) : v.m[j][1] = Head(steps).s }
            j == CHOOSE j \in at : TRUE
        IN  IF at = { } THEN v
            ELSE IF Len(steps) = 1 THEN VObj(RemoveAt(v.m, j))
            ELSE VObj([v.m EXCEPT ![j] = << v.m[j][1], Removed(v.m[j][2], Tail(steps)) >>])
    ELSE v

\* C14: delete_by_keypath returns Ok and writes the input without the value the
\* full step sequence addresses; when the steps address nothing (missing key,
\* index out of range, step of the wrong kind, scalar before the last step,
\* no step) what it writes is equal to the input.
C14_DeleteByKeypath ==
    call.fn = "RawJsonb::delete_by_keypath" =>
        /\ ret.ok
        /\ DecodeValue(Emitted) = Ok(Removed(DecodeValue(left).v, call.keypath))

\* the key with its ASCII upper-case letters made lower-case
ToAsciiLower(key) == [j \in 1..Len(key) |-> IF key[j] \in 65..90 THEN key[j] + 32 ELSE key[j]]

\* C15: get_by_name returns the value of the key equal to the name when there
\* is one, also when a key equal to it ignoring ASCII case is stored before
\* it; with ignore_case set and no equal key, the value of the first stored
\* key equal ignoring ASCII case; None otherwise and for a value that is not
\* an object.
C15_GetByName ==
    call.fn = "get_by_name" =>
        LET m == MembersOf(left)
            exact == { j \in 1..Len(m) : m[j][1] = call.name }
            folded == { j \in 1..Len(m) : ToAsciiLower(m[j][1]) = ToAsciiLower(call.name) }
            first == CHOOSE j \in folded : \A k \in folded : j <= k
        IN  ret = IF exact # { } THEN Ok(Ok(Encode(m[CHOOSE j \in exact : TRUE][2])))
                  ELSE IF call.ignore_case /\ folded # { } THEN Ok(Ok(Encode(m[first][2])))
                  ELSE Ok(None)

\* foo is looked up ignoring case in {"Foo":1,"foo":2}: the value of foo, 2,
\* is returned although Foo is stored before it
C15_Witness ==
    /\ call = [fn |-> "get_by_name", name |-> Kfoo, ignore_case |-> TRUE]
    /\ left = Encode(VObj(<< << KFoo, Num1 >>, << Kfoo, Num2 >> >>))
    /\ ret = Ok(Ok(Encode(Num2)))

RECURSIVE Selected(_, _)
\* the value the steps select from v, or None
Selected(v, steps) ==
    IF steps = << >> THEN Ok(v)
    ELSE IF v.t = "arr" /\ Head(steps).t = "Index" THEN
        LET n == Len(v.e)
            i == Head(steps).i
        IN  IF 0 <= i /\ i < n THEN Selected(v.e[i + 1], Tail(steps))
            ELSE IF 0 - n <= i /\ i < 0 THEN Selected(v.e[n + i + 1], Tail(steps))
            ELSE None
    ELSE IF v.t = "obj" /\ Head(steps).t = "Name" THEN
        LET at == { j \in 1..Len(v.m) : v.m[j][1] = Head(steps).s }
        IN  IF at = { } THEN None
            ELSE Selected(v.m[CHOOSE j \in at : TRUE][2], Tail(steps))
    ELSE None

\* C16: get_by_keypath returns the value selected by walking the steps from
\* the root (a name selects a member of an object, an index i an element of
\* an array of length n: element i if 0 <= i < n, element n + i if
\* -n <= i < 0), None when a step selects nothing, and the input itself for
\* no step.
C16_GetByKeypath ==
    call.fn = "get_by_keypath" =>
        ret = IF Selected(DecodeValue(left).v, call.keypaths).ok
              THEN Ok(Ok(Encode(Selected(DecodeValue(left).v, call.keypaths).v)))
              ELSE Ok(None)

\* the steps b, 1, d select 1 from {"a":null,"b":[null,{"c":null,"d":1}]},
\* and the steps 1, -1 select 2 from [1,[1,2]]
C16_Witness ==
    /\ call.fn = "get_by_keypath"
    /\ \/ /\ call.keypaths = << KName(Kb), KIndex(1), KName(Kd) >>
          /\ ret = Ok(Ok(Encode(Num1)))
       \/ /\ call.keypaths = << KIndex(1), KIndex(0 - 1) >>
          /\ ret = Ok(Ok(Encode(Num2)))

\* the elements a value brings into a concatenation that builds an array
AsElements(v) == IF v.t = "arr" THEN v.e ELSE << v >>

\* C17: concat of two objects is the union of their members, the right value
\* kept for a key of both; in every other case it is the array of the left
\* elements followed by the right elements, a side that is not an array
\* standing as one element.
C17_ConcatCases ==
    call.fn = "RawJsonb::concat" =>
        /\ ret.ok
        /\ IF DecodeValue(left).v.t = "obj" /\ DecodeValue(right).v.t = "obj"
           THEN /\ DecodeValue(Emitted).ok
                /\ DecodeValue(Emitted).v.t = "obj"
                /\ Range(MembersOf(Emitted)) =
                       Range(MembersOf(right)) \cup
                       { p \in Range(MembersOf(left)) :
                             \A q \in Range(MembersOf(right)) : q[1] # p[1] }
                /\ \A j, k \in 1..Len(MembersOf(Emitted)) :
                       MembersOf(Emitted)[j][1] = MembersOf(Emitted)[k][1] => j = k
           ELSE DecodeValue(Emitted) =
                    Ok(VArr(AsElements(DecodeValue(left).v) \o AsElements(DecodeValue(right).v)))

\* {"a":1,"b":"a"} and {"b":2,"c":null} give {"a":1,"b":2,"c":null}; or an
\* object and an array give the array with the object in front
C17_Witness ==
    /\ call.fn = "RawJsonb::concat"
    /\ \/ /\ left = Encode(VObj(<< << Ka, Num1 >>, << Kb, VStr(Ka) >> >>))
          /\ Emitted = Encode(VObj(<< << Ka, Num1 >>, << Kb, Num2 >>, << Kc, VNull >> >>))
       \/ /\ left = Encode(VObj(<< << KFoo, Num1 >> >>))
          /\ right = Encode(VArr(<< Num1, Num3 >>))
          /\ Emitted = Encode(VArr(<< VObj(<< << KFoo, Num1 >> >>), Num1, Num3 >>))

RECURSIVE WithoutNullMembers(_)
\* the value without the object members whose value is null, at every depth
WithoutNullMembers(v) ==
    IF v.t = "obj" THEN
        LET kept == SelectSeq(v.m, LAMBDA p : p[2].t # "null")
        IN  VObj([j \in 1..Len(kept) |-> << kept[j][1], WithoutNullMembers(kept[j][2]) >>])
    ELSE IF v.t = "arr" THEN VArr([j \in 1..Len(v.e) |-> WithoutNullMembers(v.e[j])])
    ELSE v

\* C18: strip_nulls writes the input without the object members whose value
\* is null, at every depth, and with nothing else removed: null elements of
\* arrays, a null scalar, the other members and the order of the elements
\* are kept.
C18_StripNulls ==
    call.fn = "RawJsonb::strip_nulls" =>
        /\ ret.ok
        /\ DecodeValue(Emitted) = Ok(WithoutNullMembers(DecodeValue(left).v))

\* {"a":null,"b":[null,{"c":null,"d":1}]} becomes {"b":[null,{"d":1}]}
C18_Witness ==
    /\ call.fn = "RawJsonb::strip_nulls"
    /\ left = Encode(VObj(<< << Ka, VNull >>,
                 << Kb, VArr(<< VNull, VObj(<< << Kc, VNull >>, << Kd, Num1 >> >>) >>) >> >>))
    /\ Emitted = Encode(VObj(<< << Kb, VArr(<< VNull, VObj(<< << Kd, Num1 >> >>) >>) >> >>))

\* the index array_insert is to put the new value at, in an array of n elements
InsertAt(pos, n) ==
    LET i == IF pos >= 0 THEN pos ELSE n + pos
    IN  IF i < 0 THEN 0 ELSE IF i > n THEN n ELSE i

\* C19: array_insert writes an array of n + 1 elements: the new value at the
\* index clamp(pos if pos >= 0 else n + pos, 0, n), the n elements of the
\* input around it in their order; an input that is not an array counts as
\* the array of that one value.
C19_ArrayInsert ==
    call.fn = "array_insert" =>
        LET es == AsElements(DecodeValue(left).v)
            k == InsertAt(call.pos, Len(es))
        IN  /\ ret.ok
            /\ DecodeValue(Emitted) =
                   Ok(VArr(SubSeq(es, 1, k) \o << DecodeValue(right).v >>
                             \o SubSeq(es, k + 1, Len(es))))

\* C20: build_array of n well-formed items writes an array container: its
\* array_length is n, its type_of is "array", get_by_index(i) is item i and
\* array_values are the items, byte for byte.
C20_BuildExtractRoundTrip ==
    /\ call.fn = "build_array" /\ (\A i \in 1..Len(items) : items[i][2] \in BuildValues)
           => ret.ok /\ HeaderType(Emitted) = ARRAY_CONTAINER_TAG
    /\ call.fn = "array_length" => ret = Ok(Ok(Len(items)))
    /\ call.fn = "type_of" => ret = Ok("array")
    /\ call.fn = "get_by_index" =>
           ret = IF call.index < Len(items) THEN Ok(Ok(items[call.index + 1][2])) ELSE Ok(None)
    /\ call.fn = "array_values" => ret = Ok(Ok([i \in 1..Len(items) |-> items[i][2]]))

\* the second of two items, the scalar 1 behind the array [1], is read back
C20_Witness ==
    /\ call = [fn |-> "get_by_index", index |-> 1]
    /\ Len(items) = 2
    /\ items[1][2] = Encode(VArr(<< Num1 >>))
    /\ items[2][2] = Encode(Num1)
    /\ ret = Ok(Ok(Encode(Num1)))

\* ---------------------------------------------------------------------
\* SpecSel: the selector on a few documents, paths and filter expressions
\* ---------------------------------------------------------------------
NSel == 4

\* {"a":{"b":1},"b":2}, {"b":[{"a":1},{"a":3},{"a":2},{"a":"a"}]},
\* [1,3,"a",null,[2]], 1 and [{"a":2},{"a":1}]
SelCorpus ==
    << VObj(<< << Ka, VObj(<< << Kb, Num1 >> >>) >>, << Kb, Num2 >> >>),
       VObj(<< << Kb, VArr(<< VObj(<< << Ka, Num1 >> >>), VObj(<< << Ka, Num3 >> >>),
                              VObj(<< << Ka, Num2 >> >>), VObj(<< << Ka, VStr(Ka) >> >>) >>) >> >>),
       VArr(<< Num1, Num3, VStr(Ka), VNull, VArr(<< Num2 >>) >>),
       Num1,
       VArr(<< VObj(<< << Ka, Num2 >> >>), VObj(<< << Ka, Num1 >> >>) >>) >>

SelValues == { Encode(SelCorpus[k]) : k \in 1..NSel }

CmpOps == { "Eq", "NotEq", "Lt", "Lte", "Gt", "Gte" }

\* @.a, @ and $.b
CurrentA == EPaths(<< PCurrent, PDotField(Ka) >>)
CurrentItself == EPaths(<< PCurrent >>)
RootB == EPaths(<< PRoot, PDotField(Kb) >>)

\* comparisons of @.a, @ and $.b with 2, and of @.a with "a"
Comparisons ==
    { EBinaryOp(op, l, EValue(PVNumber(NUInt(2)))) :
          op \in CmpOps, l \in {CurrentA, CurrentItself, RootB} }
      \cup { EBinaryOp("Eq", CurrentA, EValue(PVString(Ka))) }

\* 1 == 1, 1 == 2, and two expressions whose evaluation is an error: a path
\* that starts with neither $ nor @, and a path where a comparison must be
ExprTrue == EBinaryOp("Eq", EValue(PVNumber(NUInt(1))), EValue(PVNumber(NUInt(1))))
ExprFalse == EBinaryOp("Eq", EValue(PVNumber(NUInt(1))), EValue(PVNumber(NUInt(2))))
ExprBadPath == EBinaryOp("Eq", EPaths(<< PDotField(Ka) >>), EValue(PVNumber(NUInt(1))))
ExprNoOp == CurrentItself

Operands == { ExprTrue, ExprFalse, ExprBadPath, ExprNoOp,
              EBinaryOp("Lt", CurrentA, EValue(PVNumber(NUInt(3)))) }

Exprs ==
    Operands \cup Comparisons
      \cup { EBinaryOp(op, l, r) : op \in {"Or", "And"}, l \in Operands, r \in Operands }

\* the paths selected: steps of every kind, a filter at the end and in the
\* middle, and $ after other steps
JsonPaths ==
    { << PRoot >>, << PRoot, PDotField(Kb) >>, << PRoot, [t |-> "DotWildcard"] >>,
      << PRoot, [t |-> "BracketWildcard"] >>,
      << PRoot, PDotField(Ka), PRoot, PDotField(Kb) >>,
      << PRoot, PDotField(Kb), [t |-> "BracketWildcard"], PRoot >>,
      << PRoot, PDotField(Kb),
         PArrayIndices(<< [t |-> "Index", idx |-> [t |-> "Index", i |-> 0]],
                          [t |-> "Slice", start |-> [t |-> "Index", i |-> 2],
                           end |-> [t |-> "LastIndex", i |-> 0]],
                          [t |-> "Index", idx |-> [t |-> "LastIndex", i |-> 0 - 1]],
                          [t |-> "Index", idx |-> [t |-> "Index", i |-> 7]] >>) >>,
      << PRoot, PDotField(Kb), [t |-> "BracketWildcard"],
         PFilterExpr(EBinaryOp("Lt", CurrentA, EValue(PVNumber(NUInt(3))))), PDotField(Ka) >> }
      \cup { << PRoot, PDotField(Kb), [t |-> "BracketWildcard"], PFilterExpr(e) >> :
                 e \in Comparisons \cup { EBinaryOp("Or", ExprTrue, ExprBadPath) } }
      \cup { << PRoot, [t |-> "BracketWildcard"], PFilterExpr(e) >> : e \in Comparisons }

\* what Selector::compare is given: one value, or the values of a path
PathValues ==
    { PVNull, PVBoolean(TRUE), PVBoolean(FALSE), PVNumber(NUInt(1)), PVNumber(NUInt(2)),
      PVString(Ka), PVString(Kb) }

ExprValues ==
    { [t |-> "Value", v |-> v] : v \in PathValues }
      \cup { [t |-> "Values", vs |-> vs] :
                 vs \in { << >>, << PVNumber(NUInt(1)), PVNumber(NUInt(3)) >>,
                          << PVString(Ka), PVNumber(NUInt(2)) >>, << PVNull >>,
                          << PVBoolean(TRUE), PVBoolean(FALSE), PVString(Kb) >> } }

InitSel ==
    /\ call = NoCall
    /\ left \in SelValues
    /\ right \in SelValues
    /\ third = << >>
    /\ items = << >>
    /\ buf = << >>
    /\ pre = << >>
    /\ ret = NoRet

\* Selector::new(json_path).select(left)
Select ==
    /\ call.fn = "none"
    /\ \E json_path \in JsonPaths :
          /\ call' = [fn |-> "select", json_path |-> json_path]
          /\ ret' = select(json_path, left)
    /\ UNCHANGED << left, right, third, items, buf, pre >>

\* filter_expr with left as the root and right as the current item
FilterExpr ==
    /\ call.fn = "none"
    /\ \E expr \in Exprs :
          /\ call' = [fn |-> "filter_expr", expr |-> expr]
          /\ ret' = filter_expr(left, right, expr)
    /\ UNCHANGED << left, right, third, items, buf, pre >>

SelectorCompare ==
    /\ call.fn = "none"
    /\ \E op \in CmpOps, lhs \in ExprValues, rhs \in ExprValues :
          /\ call' = [fn |-> "Selector::compare", op |-> op, lhs |-> lhs, rhs |-> rhs]
          /\ ret' = Selector_compare(op, lhs, rhs)
    /\ UNCHANGED << left, right, third, items, buf, pre >>

NextSel ==
    \/ Select
    \/ FilterExpr
    \/ SelectorCompare

SpecSel == InitSel /\ [][NextSel]_vars

\* the path of the call ends with a filter step
EndsWithFilter == call.fn = "select" /\ call.json_path[Len(call.json_path)].t = "FilterExpr"
\* the items on the queue when that filter step begins
BeforeFilter == select(Take(call.json_path, Len(call.json_path) - 1), left)
\* the predicate of that filter step on one item
Predicate(item) == filter_expr(left, item, call.json_path[Len(call.json_path)].expr)

\* C21: a filter step keeps exactly the items of the queue for which the
\* predicate is true, in their order; nothing is added or duplicated.
C21_FilterKeepsOrder ==
    (/\ EndsWithFilter
     /\ BeforeFilter.ok
     /\ \A k \in 1..Len(BeforeFilter.v) : Predicate(BeforeFilter.v[k]).ok)
        => ret = Ok(SelectSeq(BeforeFilter.v, LAMBDA item : Predicate(item).v))

\* $.b[*][?(@.a != 2)]: of {"a":1},{"a":3},{"a":2},{"a":"a"} the filter keeps
\* the first, the second and the fourth
C21_Witness ==
    /\ EndsWithFilter
    /\ call.json_path[Len(call.json_path)].expr.op = "NotEq"
    /\ ret = Ok(<< Encode(VObj(<< << Ka, Num1 >> >>)), Encode(VObj(<< << Ka, Num3 >> >>)),
                   Encode(VObj(<< << Ka, VStr(Ka) >> >>)) >>)

\* the set of values of an operand
ValueSet(x) == IF x.t = "Value" THEN { x.v } ELSE { x.vs[k] : k \in 1..Len(x.vs) }

\* the operator on two values, under the scalar order
Satisfies(op, l, r) ==
    LET order == partial_cmp(l, r).v
    IN  CASE op = "Eq" -> order = "Equal"
          [] op = "NotEq" -> order \in {"Less", "Greater"}
          [] op = "Lt" -> order = "Less"
          [] op = "Lte" -> order \in {"Less", "Equal"}
          [] op = "Gt" -> order = "Greater"
          [] op = "Gte" -> order \in {"Greater", "Equal"}

\* C22: a comparison of the value sets L and R is true exactly when some
\* pair (l, r) of L x R satisfies the operator, hence false when a set is
\* empty.
C22_ExistentialCompare ==
    call.fn = "Selector::compare" =>
        ret = Ok(\E l \in ValueSet(call.lhs) : \E r \in ValueSet(call.rhs) :
                     Satisfies(call.op, l, r))

\* [1, 3] < 2 is true by its first value and [1, 3] > 2 by its second;
\* nothing is equal to a value of the empty list
C22_Witness ==
    /\ call.fn = "Selector::compare"
    /\ \/ /\ call.lhs = [t |-> "Values", vs |-> << PVNumber(NUInt(1)), PVNumber(NUInt(3)) >>]
          /\ call.rhs = [t |-> "Value", v |-> PVNumber(NUInt(2))]
          /\ call.op = "Gt"
          /\ ret = Ok(TRUE)
       \/ /\ call.lhs = [t |-> "Values", vs |-> << >>]
          /\ call.op = "Eq"
          /\ ret = Ok(FALSE)

\* the positions after the first where the path of the call has a $ step
LaterRoots ==
    IF call.fn = "select"
    THEN { k \in 2..Len(call.json_path) : call.json_path[k].t = "Root" }
    ELSE { }

\* C23: a $ step at any position resets the pipeline to the root: the result
\* is that of the steps from the $ on, whatever was selected before it.
C23_RootResets ==
    \A k \in LaterRoots :
        ret = select(SubSeq(call.json_path, k, Len(call.json_path)), left)

\* C27: the logical operators short-circuit: L || R is true when L is true
\* and L && R is false when L is false, whatever the evaluation of R gives,
\* an error included.
C27_ShortCircuit ==
    call.fn = "filter_expr" /\ call.expr.t = "BinaryOp" =>
        /\ call.expr.op = "Or" /\ filter_expr(left, right, call.expr.left) = Ok(TRUE)
               => ret = Ok(TRUE)
        /\ call.expr.op = "And" /\ filter_expr(left, right, call.expr.left) = Ok(FALSE)
               => ret = Ok(FALSE)

\* ---------------------------------------------------------------------
\* parse_json_path on path texts
\* ---------------------------------------------------------------------

\* the cases of test_json_path, in its order
WellFormedPaths ==
    {
      << 36 >>,  \* $
      << 36, 46, 42 >>,  \* $.*
      << 36, 91, 42, 93 >>,  \* $[*]
      << 36, 46, 115, 116, 111, 114, 101, 46, 98, 111, 111, 107, 91, 42, 93, 46, 42 >>,  \* $.store.book[*].*
      << 36, 46, 115, 116, 111, 114, 101, 46, 98, 111, 111, 107, 91, 48, 93, 46, 112, 114, 105, 99, 101 >>,  \* $.store.book[0].price
      << 36, 46, 115, 116, 111, 114, 101, 46, 98, 111, 111, 107, 91, 108, 97, 115, 116, 93, 46, 105, 115, 98, 110 >>,  \* $.store.book[last].isbn
      << 36, 46, 115, 116, 111, 114, 101, 46, 98, 111, 111, 107, 91, 48, 44, 49, 44, 32, 108, 97, 115, 116, 32, 45, 32, 50, 93, 46, 112, 114, 105, 99, 101 >>,  \* $.store.book[0,1, last - 2].price
      << 36, 46, 115, 116, 111, 114, 101, 46, 98, 111, 111, 107, 91, 48, 44, 49, 32, 116, 111, 32, 108, 97, 115, 116, 45, 49, 93 >>,  \* $.store.book[0,1 to last-1]
      << 36, 46, 115, 116, 111, 114, 101, 46, 98, 111, 111, 107, 63, 40, 64, 46, 105, 115, 98, 110, 41, 46, 112, 114, 105, 99, 101 >>,  \* $.store.book?(@.isbn).price
      << 36, 46, 115, 116, 111, 114, 101, 46, 98, 111, 111, 107, 63, 40, 64, 46, 112, 114, 105, 99, 101, 32, 62, 32, 49, 48, 41, 46, 116, 105, 116, 108, 101 >>,  \* $.store.book?(@.price > 10).title
      << 36, 46, 115, 116, 111, 114, 101, 46, 98, 111, 111, 107, 63, 40, 64, 46, 112, 114, 105, 99, 101, 32, 60, 32, 36, 46, 101, 120, 112, 101, 110, 115, 105, 118, 101, 41, 46, 112, 114, 105, 99, 101 >>,  \* $.store.book?(@.price < $.expensive).price
      << 36, 46, 34, 115, 116, 111, 114, 101, 34, 58, 98, 111, 111, 107, 91, 34, 112, 114, 105, 99, 101, 34, 93 >>,  \* $."store":book["price"]
      << 36, 46, 115, 116, 111, 114, 101, 46, 98, 111, 111, 107, 63, 40, 64, 46, 112, 114, 105, 99, 101, 32, 60, 32, 49, 48, 32, 38, 38, 32, 64, 46, 99, 97, 116, 101, 103, 111, 114, 121, 32, 61, 61, 32, 34, 102, 105, 99, 116, 105, 111, 110, 34, 41 >>,  \* $.store.book?(@.price < 10 && @.category == "fiction")
      << 36, 46, 115, 116, 111, 114, 101, 46, 98, 111, 111, 107, 63, 40, 64, 46, 112, 114, 105, 99, 101, 32, 62, 32, 49, 48, 32, 124, 124, 32, 64, 46, 99, 97, 116, 101, 103, 111, 114, 121, 32, 61, 61, 32, 34, 114, 101, 102, 101, 114, 101, 110, 99, 101, 34, 41 >>,  \* $.store.book?(@.price > 10 || @.category == "reference")
      << 36, 46, 115, 116, 111, 114, 101, 46, 98, 111, 111, 107, 63, 40, 64, 46, 112, 114, 105, 99, 101, 32, 62, 32, 50, 48, 32, 38, 38, 32, 40, 64, 46, 99, 97, 116, 101, 103, 111, 114, 121, 32, 61, 61, 32, 34, 114, 101, 102, 101, 114, 101, 110, 99, 101, 34, 32, 124, 124, 32, 64, 46, 99, 97, 116, 101, 103, 111, 114, 121, 32, 61, 61, 32, 34, 102, 105, 99, 116, 105, 111, 110, 34, 41, 41 >>  \* $.store.book?(@.price > 20 && (@.category == "reference" || @.category == "fiction"))
    }

\* the cases of test_json_path_error, in its order
ErrorPaths ==
    {
      << 120 >>,  \* x
      << 36, 46, 91 >>,  \* $.[
      << 36, 88 >>,  \* $X
      << 36, 46 >>,  \* $.
      << 36, 46, 112, 114, 111, 112, 46 >>,  \* $.prop.
      << 36, 46, 46 >>,  \* $..
      << 36, 46, 112, 114, 111, 112, 46, 46 >>,  \* $.prop..
      << 36, 46, 102, 111, 111, 32, 98, 97, 114 >>,  \* $.foo bar
      << 36, 91, 48, 44, 32, 49, 44, 32, 50, 32, 52, 93 >>,  \* $[0, 1, 2 4]
      << 36, 91, 39, 49, 39, 44, 39, 50, 39, 44, 93 >>,  \* $['1','2',]
      << 36, 91, 39, 49, 39, 44, 32, 44, 39, 51, 39, 93 >>,  \* $['1', ,'3']
      << 36, 91, 39, 97, 97, 97, 39, 125, 39, 98, 98, 98, 39, 93 >>  \* $['aaa'}'bbb']
    }

\* the fourteen operators of the grammar: the text and the BinaryOperator
Operators ==
    {
      [text |-> << 61, 61 >>, op |-> "Eq"],  \* ==
      [text |-> << 33, 61 >>, op |-> "NotEq"],  \* !=
      [text |-> << 60 >>, op |-> "Lt"],  \* <
      [text |-> << 60, 61 >>, op |-> "Lte"],  \* <=
      [text |-> << 62 >>, op |-> "Gt"],  \* >
      [text |-> << 62, 61 >>, op |-> "Gte"],  \* >=
      [text |-> << 61, 126 >>, op |-> "Match"],  \* =~
      [text |-> << 105, 110 >>, op |-> "In"],  \* in
      [text |-> << 110, 105, 110 >>, op |-> "Nin"],  \* nin
      [text |-> << 115, 117, 98, 115, 101, 116, 111, 102 >>, op |-> "Subsetof"],  \* subsetof
      [text |-> << 97, 110, 121, 111, 102 >>, op |-> "Anyof"],  \* anyof
      [text |-> << 110, 111, 110, 101, 111, 102 >>, op |-> "Noneof"],  \* noneof
      [text |-> << 115, 105, 122, 101 >>, op |-> "Size"],  \* size
      [text |-> << 101, 109, 112, 116, 121 >>, op |-> "Empty"]  \* empty
    }

\* operands of a filter: two paths and a literal of each kind (null, true,
\* false, integer, negative integer, float, single and double quoted string)
Operand(text, e) == [text |-> text, expr |-> e]

PathOperands ==
    { Operand(<< 64, 46, 97 >>, [t |-> "Paths", paths |-> << [t |-> "Current"], [t |-> "DotField", name |-> << 97 >>] >>]),
      Operand(<< 36, 46, 98 >>, [t |-> "Paths", paths |-> << [t |-> "Root"], [t |-> "DotField", name |-> << 98 >>] >>]) }

Literal(text, v) == Operand(text, [t |-> "Value", v |-> v])

NullLiteral == Literal(<< 110, 117, 108, 108 >>, [t |-> "Null"])

BooleanLiterals ==
    { Literal(<< 116, 114, 117, 101 >>, [t |-> "Boolean", b |-> TRUE]),
      Literal(<< 102, 97, 108, 115, 101 >>, [t |-> "Boolean", b |-> FALSE]) }

IntegerLiterals ==
    { Literal(<< 49 >>, [t |-> "UInt64", n |-> 1]), Literal(<< 45, 50 >>, [t |-> "Int64", n |-> 0 - 2]) }

FloatLiteral == Literal(<< 49, 46, 53 >>, [t |-> "Float64", text |-> << 49, 46, 53 >>])

StringLiterals ==
    { Literal(<< 39, 97, 39 >>, [t |-> "String", s |-> << 97 >>]),
      Literal(<< 34, 98, 34 >>, [t |-> "String", s |-> << 98 >>]) }

FilterOperands ==
    PathOperands \cup {NullLiteral} \cup BooleanLiterals \cup IntegerLiterals
        \cup {FloatLiteral} \cup StringLiterals

\* the filter step [?(L op R)] behind the root, as the grammar writes it
FilterText(o, l, r) ==
    << 36, 91, 63, 40 >> \o l.text \o << 32 >> \o o.text \o << 32 >> \o r.text \o << 41, 93 >>

\* the steps that FilterText(o, l, r) writes
FilterSteps(o, l, r) ==
    << [t |-> "Root"],
       [t |-> "FilterExpr",
        expr |-> [t |-> "BinaryOp", op |-> o.op, left |-> l.expr, right |-> r.expr]] >>

FilterTexts == { FilterText(o, l, r) : o \in Operators, l \in FilterOperands, r \in FilterOperands }

PathTexts == WellFormedPaths \cup ErrorPaths \cup FilterTexts

InitPath ==
    /\ call = NoCall
    /\ left = << >>
    /\ right = << >>
    /\ third = << >>
    /\ items = << >>
    /\ buf = << >>
    /\ pre = << >>
    /\ ret = NoRet

ParseJsonPath ==
    /\ call.fn = "none"
    /\ \E input \in PathTexts :
          /\ call' = [fn |-> "parse_json_path", input |-> input]
          /\ ret' = parse_json_path(input)
    /\ UNCHANGED << left, right, third, items, buf, pre >>

NextPath == ParseJsonPath

SpecPath == InitPath /\ [][NextPath]_vars

\* C24: parse_json_path accepts every filter step [?(L op R)] that the
\* grammar writes with one of its fourteen operators and operands that are
\* paths or literals (null, true, false, integer, float, string): the whole
\* input is consumed and the steps parsed are the root and a filter with the
\* operator and the operands written.
C24_FilterStepAccepted ==
    call.fn = "parse_json_path" =>
        \A o \in Operators, l \in FilterOperands, r \in FilterOperands :
            call.input = FilterText(o, l, r) => ret = Ok(FilterSteps(o, l, r))

\* C25: parse_json_path succeeds on the well-formed paths: root, .* and [*]
\* wildcards, dot, quoted and colon fields, index lists with last, last - k
\* and a to b, and ?(...) filters with &&, || and parentheses.
C25_WellFormedAccepted ==
    (call.fn = "parse_json_path" /\ call.input \in WellFormedPaths) => ret.ok

\* C26: parse_json_path returns an error for every input that is not wholly
\* consumed as a sequence of path steps: no valid first step, a trailing .
\* or .., an unterminated bracket, a missing or extra comma in a list, a
\* mismatched closing bracket, stray characters after a valid prefix.
C26_NotConsumedIsError ==
    (call.fn = "parse_json_path" /\ call.input \in ErrorPaths) => ~ret.ok

\* a text with stray characters after a valid prefix has been refused
C26_Witness ==
    /\ call.fn = "parse_json_path"
    /\ call.input = << 36, 88 >>
    /\ parser_json_path(call.input).ok
    /\ ret = Err("InvalidJsonPath")

\* C28: the binary and the tree lookup by name agree: for every value, name
\* and ignore_case flag, RawJsonb::get_by_name on the encoded bytes returns
\* the encoding of the value Value::get_by_name returns on the decoded tree,
\* and None exactly when the tree lookup returns None.
C28_LookupAgrees ==
    call.fn = "get_by_name" =>
        Let(Value_get_by_name(DecodeValue(left).v, call.name, call.ignore_case), LAMBDA tree :
            ret = IF tree.ok THEN Ok(Ok(Encode(tree.v))) ELSE Ok(None))

\* FOO is looked up ignoring case in {"Foo":1,"foo":2}: both lookups give the
\* value of Foo, the first key equal to it ignoring case
C28_Witness ==
    /\ call = [fn |-> "get_by_name", name |-> << 70, 79, 79 >>, ignore_case |-> TRUE]
    /\ left = Encode(VObj(<< << KFoo, Num1 >>, << Kfoo, Num2 >> >>))
    /\ Value_get_by_name(DecodeValue(left).v, call.name, TRUE) = Ok(Num1)
    /\ ret = Ok(Ok(Encode(Num1)))

\* C29: the binary and the tree deletion by keypath agree: for every array or
\* object and every keypath, RawJsonb::delete_by_keypath writes the encoding
\* of the tree that delete_value_array_by_keypath or
\* delete_value_object_by_keypath leaves of the decoded value, and both fail
\* with InvalidJsonType on a scalar.  Where the tree deletion panics (the
\* index i32::MIN under overflow checks) the binary one panics too.
C29_DeletionAgrees ==
    call.fn = "RawJsonb::delete_by_keypath" =>
        Let(delete_value_by_keypath(DecodeValue(left).v, call.keypath), LAMBDA tree :
            IF ~tree.ok THEN ret = tree
            ELSE IF /\ call.overflow_checks
                    /\ delete_value_overflows(DecodeValue(left).v, call.keypath)
            THEN ret = Err("panic")
            ELSE ret.ok /\ Emitted = Encode(tree.v))

\* the member c of the object at index 1 of the member b has been deleted
\* from the bytes as from the tree
C29_Witness ==
    /\ call.fn = "RawJsonb::delete_by_keypath"
    /\ call.keypath = << KName(Kb), KIndex(1), KName(Kc) >>
    /\ left = Encode(RawCorpus[6])
    /\ delete_value_by_keypath(RawCorpus[6], call.keypath) =
           Ok(VObj(<< << Ka, VNull >>,
                      << Kb, VArr(<< VNull, VObj(<< << Kd, Num1 >> >>) >>) >> >>))
    /\ Emitted = Encode(delete_value_by_keypath(RawCorpus[6], call.keypath).v)

\* C30: for arrays a and b, array_intersection(a, b) and array_except(a, b)
\* split a: every element occurs in the two results together as often as in
\* a, so their array lengths add up to the array length of a, and
\* array_overlap(a, b) is true exactly when array_intersection(a, b) is not
\* empty.
C30_IntersectionExceptSplit ==
    (/\ call.fn \in {"array_intersection", "array_except", "array_overlap"}
     /\ DecodeValue(left).v.t = "arr" /\ DecodeValue(right).v.t = "arr")
        => Let(array_intersection(left, right), LAMBDA both :
           Let(array_except(left, right), LAMBDA only :
               /\ both.ok /\ only.ok
               /\ call.fn = "array_intersection" => Emitted = both.v
               /\ call.fn = "array_except" => Emitted = only.v
               /\ \A j \in 1..Len(Elems(left)) :
                      Count(Elems(both.v), Elems(left)[j]) + Count(Elems(only.v), Elems(left)[j])
                          = Count(Elems(left), Elems(left)[j])
               /\ array_length(both.v).v.v + array_length(only.v).v.v = array_length(left).v.v
               /\ call.fn = "array_overlap" => ret = Ok(array_length(both.v).v.v > 0)))

\* array_overlap([1,1,2,3], [1,3]) has answered true; the intersection is
\* [1,3] and the rest [1,2]
C30_Witness ==
    /\ call.fn = "array_overlap" /\ ret = Ok(TRUE)
    /\ left = Encode(VArr(<< Num1, Num1, Num2, Num3 >>))
    /\ right = Encode(VArr(<< Num1, Num3 >>))
    /\ array_intersection(left, right) = Ok(Encode(VArr(<< Num1, Num3 >>)))
    /\ array_except(left, right) = Ok(Encode(VArr(<< Num1, Num2 >>)))

====
